---- MODULE Spec2Model ----
(***************************************************************************)
(* A model of the ray tracer's rendering driver, recursive shading,        *)
(* intersection bookkeeping and group pruning.                             *)
(*                                                                         *)
(* Numbers: the program computes with f64.  The model uses integers for    *)
(* the values whose arithmetic is exact on the inputs it draws (pixel      *)
(* indices, colour intensities, material coefficients, coordinates) and    *)
(* an explicit quotient type (finite fraction, +inf, -inf, NaN) where the  *)
(* program divides.                                                        *)
(***************************************************************************)
EXTENDS Integers, Sequences, FiniteSets, TLC

(***************************************************************************)
(* Bounds of the model.                                                    *)
(***************************************************************************)
MaxH == 2
MaxV == 2
NWorkers == 2

VARIABLES
    \* ---- rendering driver (camera.rs render / render_async, main.rs) ----
    cam,        \* the Camera: [hsize, vsize]
    ranges,     \* worker -> [lo, hi): the Range<usize> handed to render_async
    wi,         \* worker -> the loop variable i of `for i in ix`
    wpc,        \* worker -> "head" | "send" | "done"
    wcolor,     \* worker -> the colour computed for pixel i, not yet sent
    chan,       \* the mpsc channel: triples sent and not yet received
    rxOpen,     \* FALSE once the Receiver has been dropped
    canvas,     \* the consumer's Canvas
    computed,   \* history: pixel <<x, y>> -> how often color_at ran for it
    sent,       \* history: pixel <<x, y>> -> how often send returned Ok for it
    \* ---- recursive shading (world.rs, intersections.rs) ----
    world,      \* the World: light sources and what each ray meets
    root,       \* the outermost call: [fn, ray, remaining]
    stack,      \* the call stack: frames of color_at, shade_hit,
                \* reflected_color and refracted_color, innermost last
    ret,        \* the value the last return handed to its caller
    \* ---- direct calls of hit and prepare_computations (intersections.rs) ----
    probe,      \* the last direct call: [fn, its arguments, out]
    \* ---- a Group and one ray cast at it (groups.rs, bounds.rs) ----
    grp,        \* the Group: invtransform, children, bounds
    gray,       \* the ray in the group's space
    gpc,        \* "build" | "local" | "children" | "done" | "panicked"
    gk,         \* how many children the iterator has gone through
    gxs,        \* the intersections collected, sorted at the end
    gvisited    \* history: the children whose intersects was called

renderVars == <<cam, ranges, wi, wpc, wcolor, chan, rxOpen, canvas, computed, sent>>

traceVars == <<world, root, stack, ret>>

probeVars == <<probe>>

groupVars == <<grp, gray, gpc, gk, gxs, gvisited>>

vars == <<renderVars, traceVars, probeVars, groupVars>>

\* What the actions of one part leave alone.
notRender == <<traceVars, probeVars, groupVars>>

notTrace == <<renderVars, probeVars, groupVars>>

notProbe == <<renderVars, traceVars, groupVars>>

notGroup == <<renderVars, traceVars, probeVars>>

(***************************************************************************)
(* canvas.rs                                                               *)
(***************************************************************************)
Black == 0

\* canvas(width, height): width * height black pixels.
NewCanvas(width, height) ==
    [width |-> width, height |-> height,
     pixels |-> [k \in 1..(width * height) |-> Black],
     panicked |-> FALSE]

\* A plausible slip: the index counts rows of `height` pixels.
write_pixel_by_height(cv, x, y, c) ==
    LET i == cv.height * y + x
    IN  IF i < Len(cv.pixels)
        THEN [cv EXCEPT !.pixels[i + 1] = c]
        ELSE [cv EXCEPT !.panicked = TRUE]

\* Canvas::write_pixel: pixels[width * y + x] = c; an index past the end of
\* the Vec panics.
write_pixel(cv, x, y, c) ==
    LET i == cv.width * y + x
    IN  IF i < Len(cv.pixels)
        THEN [cv EXCEPT !.pixels[i + 1] = c]
        ELSE [cv EXCEPT !.panicked = TRUE]

pixel_at(cv, x, y) == cv.pixels[cv.width * y + x + 1]

(***************************************************************************)
(* camera.rs                                                               *)
(***************************************************************************)
Workers == 1..NWorkers

\* world.color_at(ray_for_pixel(x, y), MAX_REFLECTIONS): World and Camera are
\* read-only during a render, so the colour is a function of the pixel alone.
\* Every pixel gets its own non-black intensity.
PixelColor(x, y) == 1 + x + MaxH * y + y

PixelOfBad(c, i) == <<i \div c.hsize, i % c.hsize>>

\* let x = i % self.hsize; let y = i / self.hsize;
PixelOf(c, i) == <<i % c.hsize, i \div c.hsize>>

\* Camera::render: for x in 0..width { for y in 0..height { write_pixel } }
RECURSIVE RenderFrom(_, _, _)
RenderFrom(cv, x, y) ==
    IF x >= cv.width THEN cv
    ELSE IF y >= cv.height THEN RenderFrom(cv, x + 1, 0)
    ELSE RenderFrom(write_pixel(cv, x, y, PixelColor(x, y)), x, y + 1)

render(c) == RenderFrom(NewCanvas(c.hsize, c.vsize), 0, 0)

\* The pixels of the camera, and the empty history.
Pixels(c) == (0..(c.hsize - 1)) \X (0..(c.vsize - 1))

\* for i in ix: the loop head. The range is exhausted: render_async returns.
WorkerReturn(w) ==
    /\ wpc[w] = "head"
    /\ wi[w] >= ranges[w].hi
    /\ wpc' = [wpc EXCEPT ![w] = "done"]
    /\ UNCHANGED <<cam, ranges, wi, wcolor, chan, rxOpen, canvas, computed, sent>>
    /\ UNCHANGED notRender

\* A plausible slip: the worker stores the colour in the pixel buffer itself
\* and sends it as well.
WorkerComputeWriting(w) ==
    /\ wpc[w] = "head"
    /\ wi[w] < ranges[w].hi
    /\ LET p == PixelOf(cam, wi[w])
       IN  /\ wcolor' = [wcolor EXCEPT ![w] = PixelColor(p[1], p[2])]
           /\ computed' = [computed EXCEPT ![p] = @ + 1]
           /\ canvas' = write_pixel(canvas, p[1], p[2], PixelColor(p[1], p[2]))
    /\ wpc' = [wpc EXCEPT ![w] = "send"]
    /\ UNCHANGED <<cam, ranges, wi, chan, rxOpen, sent>>
    /\ UNCHANGED notRender

\* The loop body up to the send: x, y, ray_for_pixel, color_at.
WorkerCompute(w) ==
    /\ wpc[w] = "head"
    /\ wi[w] < ranges[w].hi
    /\ LET p == PixelOf(cam, wi[w])
       IN  /\ wcolor' = [wcolor EXCEPT ![w] = PixelColor(p[1], p[2])]
           /\ computed' = [computed EXCEPT ![p] = @ + 1]
    /\ wpc' = [wpc EXCEPT ![w] = "send"]
    /\ UNCHANGED <<cam, ranges, wi, chan, rxOpen, canvas, sent>>
    /\ UNCHANGED notRender

\* A plausible slip: the Err of send is ignored and the loop goes on.
WorkerSendIgnoringErr(w) ==
    /\ wpc[w] = "send"
    /\ LET p == PixelOf(cam, wi[w])
       IN  IF rxOpen
           THEN /\ chan' = Append(chan, <<p[1], p[2], wcolor[w]>>)
                /\ sent' = [sent EXCEPT ![p] = @ + 1]
           ELSE UNCHANGED <<chan, sent>>
    /\ wi' = [wi EXCEPT ![w] = @ + 1]
    /\ wpc' = [wpc EXCEPT ![w] = "head"]
    /\ UNCHANGED <<cam, ranges, wcolor, rxOpen, canvas, computed>>
    /\ UNCHANGED notRender

\* pixel_sender.send((x, y, color)): Ok queues the triple (the channel is
\* unbounded, send never blocks); Err (receiver dropped) breaks the loop.
WorkerSend(w) ==
    /\ wpc[w] = "send"
    /\ LET p == PixelOf(cam, wi[w])
       IN  IF rxOpen
           THEN /\ chan' = Append(chan, <<p[1], p[2], wcolor[w]>>)
                /\ sent' = [sent EXCEPT ![p] = @ + 1]
                /\ wi' = [wi EXCEPT ![w] = @ + 1]
                /\ wpc' = [wpc EXCEPT ![w] = "head"]
           ELSE /\ wpc' = [wpc EXCEPT ![w] = "done"]
                /\ UNCHANGED <<chan, sent, wi>>
    /\ UNCHANGED <<cam, ranges, wcolor, rxOpen, canvas, computed>>
    /\ UNCHANGED notRender

(***************************************************************************)
(* main.rs: the single consumer                                            *)
(***************************************************************************)
\* A plausible slip: the coordinates of the triple are swapped on the way to
\* the canvas.
ConsumerRecvSwapped ==
    /\ rxOpen
    /\ chan # <<>>
    /\ LET m == Head(chan)
       IN  canvas' = write_pixel(canvas, m[2], m[1], m[3])
    /\ chan' = Tail(chan)
    /\ UNCHANGED <<cam, ranges, wi, wpc, wcolor, rxOpen, computed, sent>>
    /\ UNCHANGED notRender

\* while let Ok((x, y, color)) = pixel_reciever.try_recv() { write_pixel }
ConsumerRecv ==
    /\ rxOpen
    /\ chan # <<>>
    /\ LET m == Head(chan)
       IN  canvas' = write_pixel(canvas, m[1], m[2], m[3])
    /\ chan' = Tail(chan)
    /\ UNCHANGED <<cam, ranges, wi, wpc, wcolor, rxOpen, computed, sent>>
    /\ UNCHANGED notRender

\* window.next() returns None: main leaves its loop and the Receiver is
\* dropped together with whatever is still queued.
ConsumerClose ==
    /\ rxOpen
    /\ rxOpen' = FALSE
    /\ chan' = <<>>
    /\ UNCHANGED <<cam, ranges, wi, wpc, wcolor, canvas, computed, sent>>
    /\ UNCHANGED notRender

\* The index space 0..hsize*vsize cut into NWorkers contiguous ranges.
Cuts(n) ==
    {c \in [0..NWorkers -> 0..n] :
        /\ c[0] = 0
        /\ c[NWorkers] = n
        /\ \A k \in 1..NWorkers : c[k - 1] <= c[k]}

RenderStart ==
    /\ cam \in [hsize : 1..MaxH, vsize : 1..MaxV]
    /\ \E c \in Cuts(cam.hsize * cam.vsize) :
          ranges = [w \in Workers |-> [lo |-> c[w - 1], hi |-> c[w]]]
    /\ wi = [w \in Workers |-> ranges[w].lo]
    /\ wpc = [w \in Workers |-> "head"]
    /\ wcolor = [w \in Workers |-> Black]
    /\ chan = <<>>
    /\ rxOpen = TRUE
    /\ canvas = NewCanvas(cam.hsize, cam.vsize)
    /\ computed = [p \in Pixels(cam) |-> 0]
    /\ sent = [p \in Pixels(cam) |-> 0]

(***************************************************************************)
(* shapes.rs, materials.rs, intersections.rs                               *)
(***************************************************************************)
\* Refractive indices are kept in half units: 2 is 1.0, 3 is 1.5.
Vacuum == 2

\* The fields of Material the shading recursion reads. lit stands for the
\* value Material::lighting returns for the surface under one light.
Material(reflective, transparency, refractive_index, lit) ==
    [reflective |-> reflective, transparency |-> transparency,
     refractive_index |-> refractive_index, lit |-> lit]

\* A shape: id tells two shapes apart (the Arc's allocation); equality of
\* shapes does not look at it.
ShapeOf(id, m, inv) == [id |-> id, material |-> m, invtransform |-> inv]

\* impl PartialEq<Shape> for Shape: equal material and equal invtransform.
ShapeEq(a, b) == a.material = b.material /\ a.invtransform = b.invtransform

intersection(t, object) == [t |-> t, object |-> object]

\* impl PartialEq<Intersection>: equal t and equal (not identical) object.
IsecEq(a, b) == a.t = b.t /\ ShapeEq(a.object, b.object)

\* Iterator::min_by over a non-empty list: of several least elements the
\* first is kept (the later one replaces it only when strictly smaller).
RECURSIVE MinByT(_, _)
MinByT(best, rest) ==
    IF rest = <<>> THEN best
    ELSE MinByT(IF Head(rest).t < best.t THEN Head(rest) ELSE best, Tail(rest))

\* A plausible slip: t = 0 is not taken as a hit.
hit_strictly_positive(xs) ==
    LET f == SelectSeq(xs, LAMBDA x : x.t > 0)
    IN  IF f = <<>> THEN <<>> ELSE <<MinByT(Head(f), Tail(f))>>

\* hit: Option<&Intersection>, None as <<>> and Some(x) as <<x>>.
hit(xs) ==
    LET f == SelectSeq(xs, LAMBDA x : x.t >= 0)
    IN  IF f = <<>> THEN <<>> ELSE <<MinByT(Head(f), Tail(f))>>

\* xs.sort_by(|a, b| a.t.partial_cmp(&b.t).unwrap()): a stable sort.
RECURSIVE InsertByT(_, _)
InsertByT(x, sorted) ==
    IF sorted = <<>> THEN <<x>>
    ELSE IF x.t < Head(sorted).t THEN <<x>> \o sorted
    ELSE <<Head(sorted)>> \o InsertByT(x, Tail(sorted))

RECURSIVE SortByT(_)
SortByT(xs) ==
    IF xs = <<>> THEN <<>>
    ELSE InsertByT(xs[Len(xs)], SortByT(SubSeq(xs, 1, Len(xs) - 1)))

\* containers.contains(&x.object)
Contains(containers, o) ==
    \E k \in 1..Len(containers) : ShapeEq(containers[k], o)

\* containers.into_iter().filter(|o| !o.eq(&x.object)).collect()
Without(containers, o) == SelectSeq(containers, LAMBDA c : ~ShapeEq(c, o))

\* containers.last().map_or(1., |o| o.material().refractive_index)
LastIndex(containers) ==
    IF containers = <<>> THEN Vacuum
    ELSE containers[Len(containers)].material.refractive_index

Toggle(containers, o) ==
    IF Contains(containers, o) THEN Without(containers, o)
    ELSE Append(containers, o)

\* A plausible slip: n1 is read after the hit's entry has been processed.
RECURSIVE WalkContainersLate(_, _, _, _, _)
WalkContainersLate(h, xs, k, containers, n1) ==
    IF k > Len(xs) THEN [n1 |-> n1, n2 |-> 0]
    ELSE LET x == xs[k]
             after == Toggle(containers, x.object)
         IN  IF IsecEq(h, x)
             THEN [n1 |-> LastIndex(after), n2 |-> LastIndex(after)]
             ELSE WalkContainersLate(h, xs, k + 1, after, n1)

\* The loop of prepare_computations from entry k on: n1 and n2 start as 0.
RECURSIVE WalkContainers(_, _, _, _, _)
WalkContainers(h, xs, k, containers, n1) ==
    IF k > Len(xs) THEN [n1 |-> n1, n2 |-> 0]
    ELSE LET x == xs[k]
             after == Toggle(containers, x.object)
         IN  IF IsecEq(h, x)
             THEN [n1 |-> LastIndex(containers), n2 |-> LastIndex(after)]
             ELSE WalkContainers(h, xs, k + 1, after, n1)

\* Denominator of the view's sin2: (1 - cos_i^2) is kept as sin2 / SinDen.
SinDen == 4

\* Intersection::prepare_computations. The geometry of the hit (point, eyev,
\* normalv, reflectv, over_point, under_point) is what the view of the ray
\* records: 1 - dot(eyev, normalv)^2, the reflection ray and the refracted ray.
prepare_computations(h, v, xs) ==
    LET ns == WalkContainers(h, xs, 1, <<>>, 0)
    IN  [object |-> h.object, t |-> h.t, n1 |-> ns.n1, n2 |-> ns.n2,
         sin2 |-> v.sin2, reflect_ray |-> v.reflect, refract_ray |-> v.refract,
         reflectance |-> v.reflectance]

\* Comps::is_internal_reflection: (n1 / n2)^2 * (1 - cos_i^2) > 1, cleared of
\* its denominators (the two sides agree also for n2 = 0, where the quotient
\* is infinite or NaN).
is_internal_reflection(c) == c.n1 * c.n1 * c.sin2 > SinDen * c.n2 * c.n2

\* A plausible slip: the guard of the total-internal-reflection test is
\* turned around.
schlick_guard_reversed(c) ==
    IF c.n1 < c.n2 /\ is_internal_reflection(c) THEN 1 ELSE c.reflectance

\* Comps::schlick: 1 under total internal reflection (n1 > n2); the value of
\* the Schlick polynomial otherwise is the one the view records.
schlick(c) ==
    IF c.n1 > c.n2 /\ is_internal_reflection(c) THEN 1 ELSE c.reflectance

(***************************************************************************)
(* world.rs                                                                *)
(***************************************************************************)
MAX_REFLECTIONS == 6

Rays == {"r1", "r2"}

\* World::intersects: the intersections every object reports for the ray, in
\* object order, then sorted by t.
intersects(w, ray) == SortByT(w.view[ray].xs)

NoRet == [set |-> FALSE, val |-> 0]

Top == stack[Len(stack)]

Pop == SubSeq(stack, 1, Len(stack) - 1)

\* The innermost call returns v to its caller.
Return(v) ==
    /\ stack' = Pop
    /\ ret' = [set |-> TRUE, val |-> v]

\* The innermost call, now `caller`, calls `callee`.
Call(caller, callee) ==
    /\ stack' = Pop \o <<caller, callee>>
    /\ ret' = NoRet

ColorAtFrame(ray, remaining) ==
    [fn |-> "color_at", ray |-> ray, remaining |-> remaining, pc |-> "entry"]

ShadeHitFrame(comps, remaining) ==
    [fn |-> "shade_hit", comps |-> comps, remaining |-> remaining,
     pc |-> "light", k |-> 0, acc |-> Black, lit |-> Black, reflected |-> Black]

ReflectedFrame(comps, remaining) ==
    [fn |-> "reflected_color", comps |-> comps, remaining |-> remaining,
     pc |-> "entry"]

RefractedFrame(comps, remaining) ==
    [fn |-> "refracted_color", comps |-> comps, remaining |-> remaining,
     pc |-> "entry"]

Running(fn, pc) == stack # <<>> /\ Top.fn = fn /\ Top.pc = pc

\* color_at: intersect, pick the hit; None is black, Some goes to shade_hit.
ColorAtEnter ==
    /\ Running("color_at", "entry")
    /\ LET xs == intersects(world, Top.ray)
           h == hit(xs)
       IN  IF h = <<>>
           THEN Return(Black)
           ELSE Call([Top EXCEPT !.pc = "wait"],
                     ShadeHitFrame(
                         prepare_computations(h[1], world.view[Top.ray], xs),
                         Top.remaining))
    /\ UNCHANGED <<world, root>>
    /\ UNCHANGED notTrace

\* color_at: shade_hit's colour is color_at's.
ColorAtReturn ==
    /\ Running("color_at", "wait")
    /\ ret.set
    /\ Return(ret.val)
    /\ UNCHANGED <<world, root>>
    /\ UNCHANGED notTrace

\* material.lighting(object, light, over_point, eyev, normalv, is_shadowed)
lighting(c) == c.object.material.lit

\* A plausible slip: the Schlick factors are used when the material is
\* reflective or transparent, not only when it is both.
FactorsEither(c) ==
    IF c.object.material.reflective > 0 \/ c.object.material.transparency > 0
    THEN <<schlick(c), 1 - schlick(c)>>
    ELSE <<1, 1>>

\* (refl, refr) of shade_hit.
Factors(c) ==
    IF c.object.material.reflective > 0 /\ c.object.material.transparency > 0
    THEN <<schlick(c), 1 - schlick(c)>>
    ELSE <<1, 1>>

\* shade_hit: every light source has been mapped; the fold's sum is returned.
ShadeHitReturn ==
    /\ Running("shade_hit", "light")
    /\ Top.k = world.lights
    /\ Return(Top.acc)
    /\ UNCHANGED <<world, root>>
    /\ UNCHANGED notTrace

\* shade_hit, the closure for the next light: lighting, then reflected_color.
ShadeHitLight ==
    /\ Running("shade_hit", "light")
    /\ Top.k < world.lights
    /\ Call([Top EXCEPT !.pc = "refl", !.lit = lighting(Top.comps)],
            ReflectedFrame(Top.comps, Top.remaining))
    /\ UNCHANGED <<world, root>>
    /\ UNCHANGED notTrace

\* shade_hit: reflected_color has returned; refracted_color is called.
ShadeHitReflected ==
    /\ Running("shade_hit", "refl")
    /\ ret.set
    /\ Call([Top EXCEPT !.pc = "refr", !.reflected = ret.val],
            RefractedFrame(Top.comps, Top.remaining))
    /\ UNCHANGED <<world, root>>
    /\ UNCHANGED notTrace

\* shade_hit: refracted_color has returned; the light's colour
\* lighting + reflected * refl + refracted * refr is added to the sum.
ShadeHitRefracted ==
    /\ Running("shade_hit", "refr")
    /\ ret.set
    /\ LET f == Factors(Top.comps)
       IN  stack' = Pop \o
             <<[Top EXCEPT !.pc = "light", !.k = @ + 1,
                           !.acc = @ + Top.lit + Top.reflected * f[1]
                                     + ret.val * f[2],
                           !.lit = Black, !.reflected = Black]>>
    /\ ret' = NoRet
    /\ UNCHANGED <<world, root>>
    /\ UNCHANGED notTrace

\* A plausible slip: the depth test is off by one (remaining < 0).
ReflectedEnterOffByOne ==
    /\ Running("reflected_color", "entry")
    /\ IF Top.remaining < 0 \/ Top.comps.object.material.reflective = 0
       THEN Return(Black)
       ELSE Call([Top EXCEPT !.pc = "wait"],
                 ColorAtFrame(Top.comps.reflect_ray, Top.remaining - 1))
    /\ UNCHANGED <<world, root>>
    /\ UNCHANGED notTrace

\* reflected_color: black if remaining < 1 or the material does not reflect,
\* else color_at of the reflection ray with remaining - 1.
ReflectedEnter ==
    /\ Running("reflected_color", "entry")
    /\ IF Top.remaining < 1 \/ Top.comps.object.material.reflective = 0
       THEN Return(Black)
       ELSE Call([Top EXCEPT !.pc = "wait"],
                 ColorAtFrame(Top.comps.reflect_ray, Top.remaining - 1))
    /\ UNCHANGED <<world, root>>
    /\ UNCHANGED notTrace

\* A plausible slip: the reflected colour is returned unscaled.
ReflectedReturnUnscaled ==
    /\ Running("reflected_color", "wait")
    /\ ret.set
    /\ Return(ret.val)
    /\ UNCHANGED <<world, root>>
    /\ UNCHANGED notTrace

\* reflected_color: color_at(...) * material.reflective
ReflectedReturn ==
    /\ Running("reflected_color", "wait")
    /\ ret.set
    /\ Return(ret.val * Top.comps.object.material.reflective)
    /\ UNCHANGED <<world, root>>
    /\ UNCHANGED notTrace

\* A plausible slip: the test for total internal reflection is left out.
RefractedEnterNoTir ==
    /\ Running("refracted_color", "entry")
    /\ IF Top.remaining = 0
       THEN Return(Black)
       ELSE IF Top.comps.object.material.transparency = 0
       THEN Return(Black)
       ELSE Call([Top EXCEPT !.pc = "wait"],
                 ColorAtFrame(Top.comps.refract_ray, Top.remaining - 1))
    /\ UNCHANGED <<world, root>>
    /\ UNCHANGED notTrace

\* A plausible slip: refracted_color stops below 0 only.
RefractedEnterOffByOne ==
    /\ Running("refracted_color", "entry")
    /\ IF Top.remaining < 0
       THEN Return(Black)
       ELSE IF Top.comps.object.material.transparency = 0
       THEN Return(Black)
       ELSE IF is_internal_reflection(Top.comps)
       THEN Return(Black)
       ELSE Call([Top EXCEPT !.pc = "wait"],
                 ColorAtFrame(Top.comps.refract_ray, Top.remaining - 1))
    /\ UNCHANGED <<world, root>>
    /\ UNCHANGED notTrace

\* refracted_color: black if remaining == 0, if the material is opaque or
\* under total internal reflection, else color_at of the refracted ray with
\* remaining - 1.
RefractedEnter ==
    /\ Running("refracted_color", "entry")
    /\ IF Top.remaining = 0
       THEN Return(Black)
       ELSE IF Top.comps.object.material.transparency = 0
       THEN Return(Black)
       ELSE IF is_internal_reflection(Top.comps)
       THEN Return(Black)
       ELSE Call([Top EXCEPT !.pc = "wait"],
                 ColorAtFrame(Top.comps.refract_ray, Top.remaining - 1))
    /\ UNCHANGED <<world, root>>
    /\ UNCHANGED notTrace

\* refracted_color: color_at(...) * material.transparency
RefractedReturn ==
    /\ Running("refracted_color", "wait")
    /\ ret.set
    /\ Return(ret.val * Top.comps.object.material.transparency)
    /\ UNCHANGED <<world, root>>
    /\ UNCHANGED notTrace

NextTrace ==
    \/ ColorAtEnter
    \/ ColorAtReturn
    \/ ShadeHitReturn
    \/ ShadeHitLight
    \/ ShadeHitReflected
    \/ ShadeHitRefracted
    \/ ReflectedEnter
    \/ ReflectedReturn
    \/ RefractedEnter
    \/ RefractedReturn

(***************************************************************************)
(* f64 quotients: bounds.rs and cubes.rs divide by direction components    *)
(* that may be 0. A value is a finite fraction n / d (d > 0), a multiple   *)
(* n * 10e100 (cubes.rs), an infinity or NaN.                              *)
(***************************************************************************)
Fin(n, d) == [k |-> "fin", n |-> n, d |-> d]

Huge(n) == IF n = 0 THEN Fin(0, 1) ELSE [k |-> "huge", n |-> n, d |-> 1]

PInf == [k |-> "pinf", n |-> 1, d |-> 1]

NInf == [k |-> "ninf", n |-> -1, d |-> 1]

NaN == [k |-> "nan", n |-> 0, d |-> 1]

\* a / b for integer-valued a and b (b = 0 is +0.0): x / 0 is an infinity of
\* the sign of x, 0 / 0 is NaN.
QDiv(a, b) ==
    IF b = 0 THEN (IF a > 0 THEN PInf ELSE IF a < 0 THEN NInf ELSE NaN)
    ELSE IF b > 0 THEN Fin(a, b)
    ELSE Fin(-a, -b)

\* An integer-valued f64.
QInt(n) == Fin(n, 1)

\* k * x for an integer-valued k: 0 times an infinity is NaN.
QMulInt(k, x) ==
    CASE x.k = "nan" -> NaN
      [] x.k = "pinf" -> (IF k > 0 THEN PInf ELSE IF k < 0 THEN NInf ELSE NaN)
      [] x.k = "ninf" -> (IF k > 0 THEN NInf ELSE IF k < 0 THEN PInf ELSE NaN)
      [] OTHER -> [x EXCEPT !.n = k * x.n]

\* x + y: NaN stays, opposite infinities give NaN.
QAdd(x, y) ==
    CASE x.k = "nan" \/ y.k = "nan" -> NaN
      [] x.k = "pinf" -> (IF y.k = "ninf" THEN NaN ELSE PInf)
      [] x.k = "ninf" -> (IF y.k = "pinf" THEN NaN ELSE NInf)
      [] y.k \in {"pinf", "ninf"} -> y
      [] OTHER -> Fin(x.n * y.d + y.n * x.d, x.d * y.d)

\* x - o for an integer-valued o.
QSubInt(x, o) == IF x.k = "fin" THEN Fin(x.n - o * x.d, x.d) ELSE x

\* x / b for an integer-valued b (b = 0 is +0.0).
QDivInt(x, b) ==
    CASE x.k = "nan" -> NaN
      [] x.k = "pinf" -> (IF b >= 0 THEN PInf ELSE NInf)
      [] x.k = "ninf" -> (IF b >= 0 THEN NInf ELSE PInf)
      [] OTHER -> IF b = 0
                  THEN (IF x.n > 0 THEN PInf ELSE IF x.n < 0 THEN NInf ELSE NaN)
                  ELSE IF b > 0 THEN Fin(x.n, x.d * b)
                  ELSE Fin(-x.n, x.d * (-b))

\* Where a value lies: -inf, below every fraction, a fraction, above, +inf.
QClass(x) ==
    CASE x.k = "ninf" -> -2
      [] x.k = "huge" /\ x.n < 0 -> -1
      [] x.k = "fin" -> 0
      [] x.k = "huge" /\ x.n > 0 -> 1
      [] x.k = "pinf" -> 2

IsNaN(x) == x.k = "nan"

\* x < y; every comparison with NaN is false.
QLt(x, y) ==
    IF IsNaN(x) \/ IsNaN(y) THEN FALSE
    ELSE IF QClass(x) # QClass(y) THEN QClass(x) < QClass(y)
    ELSE IF x.k = "fin" THEN x.n * y.d < y.n * x.d
    ELSE IF x.k = "huge" THEN x.n < y.n
    ELSE FALSE

QGt(x, y) == QLt(y, x)

\* x <= y
QLe(x, y) == ~IsNaN(x) /\ ~IsNaN(y) /\ ~QLt(y, x)

\* x >= 0.
QGe0(x) == QLe(Fin(0, 1), x)

\* a.partial_cmp(&b).unwrap() panics when a or b is NaN.
CmpPanics(x, y) == IsNaN(x) \/ IsNaN(y)

\* vec![a, b, c].into_iter().max_by(partial_cmp.unwrap()): the last of the
\* greatest; min_by: the first of the least. Either panics on a NaN.
MaxBy3(a, b, c) ==
    LET ab == IF QGt(a, b) THEN a ELSE b
    IN  [panic |-> CmpPanics(a, b) \/ CmpPanics(ab, c),
         value |-> IF QGt(ab, c) THEN ab ELSE c]

MinBy3(a, b, c) ==
    LET ab == IF QGt(a, b) THEN b ELSE a
    IN  [panic |-> CmpPanics(a, b) \/ CmpPanics(ab, c),
         value |-> IF QGt(ab, c) THEN c ELSE ab]

(***************************************************************************)
(* matrices.rs, transformations.rs, rays.rs: the transforms used are a     *)
(* uniform integer scaling followed by a translation, p -> m * p + a       *)
(***************************************************************************)
Affine(m, a) == [m |-> m, a |-> a]

identity_matrix == Affine(1, <<0, 0, 0>>)

translation(x, y, z) == Affine(1, <<x, y, z>>)

\* Matrix::inverse of a translation.
inverse(M) == Affine(1, <<-M.a[1], -M.a[2], -M.a[3]>>)

\* Matrix * point and Matrix * vector.
MulPoint(M, p) == [c \in 1..3 |-> M.m * p[c] + M.a[c]]

MulVector(M, v) == [c \in 1..3 |-> M.m * v[c]]

\* The entry of row c, column j of the 4x4 matrix (rows 1..3).
Entry(M, c, j) == IF j = 4 THEN M.a[c] ELSE IF j = c THEN M.m ELSE 0

\* Matrix * point for a point whose coordinates may be infinite: dot folds
\* 0. + row[1] * x + row[2] * y + row[3] * z + row[4] * 1.
MulPointQ(M, p) ==
    [c \in 1..3 |->
        QAdd(QAdd(QAdd(QAdd(QInt(0), QMulInt(Entry(M, c, 1), p[1])),
                       QMulInt(Entry(M, c, 2), p[2])),
                  QMulInt(Entry(M, c, 3), p[3])),
             QInt(Entry(M, c, 4)))]

NewRay(origin, direction) == [origin |-> origin, direction |-> direction]

\* Ray::transform
RayTransform(r, M) == NewRay(MulPoint(M, r.origin), MulVector(M, r.direction))

(***************************************************************************)
(* bounds.rs                                                               *)
(***************************************************************************)
bound(min, max) == [min |-> min, max |-> max]

bound_single(p) == bound(p, p)

\* f64::min and f64::max: a NaN operand is ignored.
Min2(a, b) == IF IsNaN(a) THEN b ELSE IF IsNaN(b) THEN a
              ELSE IF QLt(b, a) THEN b ELSE a

Max2(a, b) == IF IsNaN(a) THEN b ELSE IF IsNaN(b) THEN a
              ELSE IF QLt(a, b) THEN b ELSE a

\* impl Add for Bounds
BoundsAdd(a, b) ==
    bound([c \in 1..3 |-> Min2(a.min[c], b.min[c])],
          [c \in 1..3 |-> Max2(a.max[c], b.max[c])])

\* i.fold(first, |acc, b| acc + b) over a non-empty list of bounds.
RECURSIVE FoldBounds(_, _)
FoldBounds(acc, rest) ==
    IF rest = <<>> THEN acc
    ELSE FoldBounds(BoundsAdd(acc, Head(rest)), Tail(rest))

\* Bounds::transform: the eight corners, transformed, summed.
BoundsTransform(b, M) ==
    LET corners == <<<<b.min[1], b.min[2], b.min[3]>>,
                     <<b.min[1], b.max[2], b.min[3]>>,
                     <<b.min[1], b.min[2], b.max[3]>>,
                     <<b.min[1], b.max[2], b.max[3]>>,
                     <<b.max[1], b.min[2], b.min[3]>>,
                     <<b.max[1], b.max[2], b.min[3]>>,
                     <<b.max[1], b.min[2], b.max[3]>>,
                     <<b.max[1], b.max[2], b.max[3]>>>>
        bs == [k \in 1..8 |-> bound_single(MulPointQ(M, corners[k]))]
    IN  FoldBounds(Head(bs), Tail(bs))

\* check_axis of bounds.rs
BoundsCheckAxis(origin, direction, minimum, maximum) ==
    LET tmin == QDivInt(QSubInt(minimum, origin), direction)
        tmax == QDivInt(QSubInt(maximum, origin), direction)
    IN  IF QGt(tmin, tmax) THEN <<tmax, tmin>> ELSE <<tmin, tmax>>

\* Bounds::intersects: panic when an unwrap meets a NaN, else the slab test.
BoundsIntersects(b, r) ==
    LET ax == [c \in 1..3 |->
                  BoundsCheckAxis(r.origin[c], r.direction[c], b.min[c], b.max[c])]
        tmin == MaxBy3(ax[1][1], ax[2][1], ax[3][1])
        tmax == MinBy3(ax[1][2], ax[2][2], ax[3][2])
    IN  [panic |-> tmin.panic \/ tmax.panic,
         value |-> /\ QLe(tmin.value, tmax.value)
                   /\ (QGe0(tmin.value) \/ QGe0(tmax.value))]

(***************************************************************************)
(* cubes.rs                                                                *)
(***************************************************************************)
\* check_axis of cubes.rs: a direction component below EPSILON (here: 0)
\* multiplies by 10e100 instead of dividing.
CubeCheckAxis(origin, direction) ==
    LET tmin == IF direction # 0 THEN QDiv(-1 - origin, direction)
                ELSE Huge(-1 - origin)
        tmax == IF direction # 0 THEN QDiv(1 - origin, direction)
                ELSE Huge(1 - origin)
    IN  IF QGt(tmin, tmax) THEN <<tmax, tmin>> ELSE <<tmin, tmax>>

\* cube(): the unit cube, translated.
cube(id, x, y, z) ==
    [kind |-> "cube", id |-> id, material |-> Material(0, 0, 2, 1),
     invtransform |-> inverse(translation(x, y, z)),
     bounds |-> bound(<<QInt(-1), QInt(-1), QInt(-1)>>,
                      <<QInt(1), QInt(1), QInt(1)>>)]

\* Cube::local_intersects
CubeLocalIntersects(c, r) ==
    LET ax == [k \in 1..3 |-> CubeCheckAxis(r.origin[k], r.direction[k])]
        tmin == MaxBy3(ax[1][1], ax[2][1], ax[3][1]).value
        tmax == MinBy3(ax[1][2], ax[2][2], ax[3][2]).value
    IN  IF QGt(tmin, tmax) THEN <<>>
        ELSE <<intersection(tmin, c), intersection(tmax, c)>>

(***************************************************************************)
(* planes.rs                                                               *)
(***************************************************************************)
\* plane(): the xz plane, translated; its bounds as plane() sets them.
plane(id, x, y, z) ==
    [kind |-> "plane", id |-> id, material |-> Material(0, 0, 2, 1),
     invtransform |-> inverse(translation(x, y, z)),
     bounds |-> bound(<<NInf, NInf, QInt(0)>>, <<PInf, PInf, QInt(0)>>)]

\* Plane::local_intersects: nothing for a ray parallel to the plane
\* (|direction.y| < EPSILON, here 0), else t = -origin.y / direction.y.
PlaneLocalIntersects(c, r) ==
    IF r.direction[2] = 0 THEN <<>>
    ELSE <<intersection(QDiv(-r.origin[2], r.direction[2]), c)>>

\* Shape::intersects: the ray goes to the shape's space first.
ShapeIntersects(c, r) ==
    IF c.kind = "plane"
    THEN PlaneLocalIntersects(c, RayTransform(r, c.invtransform))
    ELSE CubeLocalIntersects(c, RayTransform(r, c.invtransform))

(***************************************************************************)
(* groups.rs                                                               *)
(***************************************************************************)
\* group()
NewGroup ==
    [kind |-> "group", invtransform |-> identity_matrix, children |-> <<>>,
     bounds |-> bound_single(<<QInt(0), QInt(0), QInt(0)>>)]

\* A plausible slip: the wrapper does not take the group's transform.
WrapUntransformed(g, child) ==
    [kind |-> "group", invtransform |-> identity_matrix,
     children |-> <<child>>, bounds |-> child.bounds]

\* Group::wrap
Wrap(g, child) ==
    [kind |-> "group", invtransform |-> g.invtransform,
     children |-> <<child>>, bounds |-> child.bounds]

\* Group::add_child_rc: push, then the bounds of all children, each
\* transformed by the inverse of the child's invtransform, summed.
add_child_rc(g, c) ==
    LET cs == Append(g.children, c)
        bs == [k \in 1..Len(cs) |->
                  BoundsTransform(cs[k].bounds, inverse(cs[k].invtransform))]
    IN  [g EXCEPT !.children = cs, !.bounds = FoldBounds(Head(bs), Tail(bs))]

\* sort_by on t for the quotients: a stable insertion.
RECURSIVE InsertByQ(_, _)
InsertByQ(x, sorted) ==
    IF sorted = <<>> THEN <<x>>
    ELSE IF QLt(x.t, Head(sorted).t) THEN <<x>> \o sorted
    ELSE <<Head(sorted)>> \o InsertByQ(x, Tail(sorted))

RECURSIVE SortByQ(_)
SortByQ(xs) ==
    IF xs = <<>> THEN <<>>
    ELSE InsertByQ(xs[Len(xs)], SortByQ(SubSeq(xs, 1, Len(xs) - 1)))

\* The concatenation of a sequence of sequences (flat_map).
RECURSIVE Flatten(_)
Flatten(ss) == IF ss = <<>> THEN <<>> ELSE Head(ss) \o Flatten(Tail(ss))

MaxChildren == 2
Far == 5

\* The cubes a group is built from.
GroupCubes == {cube("c0", 0, 0, 0), cube("c1", 3, 0, 0), cube("c2", 0, 0, -3)}

\* The inverse transforms a group is given: none, a translation by
\* (0, 0, -3), a scaling by 1/2.
\* The planes a group is built from.
GroupPlanes == {plane("p0", 0, 0, 0), plane("p1", 0, 3, 0)}

GroupShapes == GroupCubes \cup GroupPlanes

GroupInvTransforms ==
    {identity_matrix, inverse(translation(0, 0, -3)), Affine(2, <<0, 0, 0>>)}

GroupRays ==
    {NewRay(<<ox, oy, oz>>, <<dx, dy, dz>>) :
        ox \in {0, 1, Far}, oy \in {0, 2}, oz \in {-Far, 0, Far},
        dx \in {-1, 0, 1}, dy \in {0, 1}, dz \in {-1, 0, 1}}
    \ {NewRay(<<ox, oy, oz>>, <<0, 0, 0>>) :
        ox \in {0, 1, Far}, oy \in {0, 2}, oz \in {-Far, 0, Far}}

\* Scene construction: g.add_child(c)
GroupAddChild(c) ==
    /\ gpc = "build"
    /\ Len(grp.children) < MaxChildren
    /\ grp' = add_child_rc(grp, c)
    /\ UNCHANGED <<gray, gpc, gk, gxs, gvisited>>
    /\ UNCHANGED notGroup

\* Scene construction: g.invtransform = M
GroupSetTransform(M) ==
    /\ gpc = "build"
    /\ grp.invtransform = identity_matrix
    /\ M # identity_matrix
    /\ grp' = [grp EXCEPT !.invtransform = M]
    /\ UNCHANGED <<gray, gpc, gk, gxs, gvisited>>
    /\ UNCHANGED notGroup

\* g.intersects(g, &r): Shape::intersects takes the ray to the group's space
\* and calls local_intersects.
GroupIntersects(r) ==
    /\ gpc = "build"
    /\ gray' = RayTransform(r, grp.invtransform)
    /\ gpc' = "local"
    /\ UNCHANGED <<grp, gk, gxs, gvisited>>
    /\ UNCHANGED notGroup

\* A plausible slip: the bounds are tested before the children are counted.
GroupLocalIntersectsBoundsFirst ==
    /\ gpc = "local"
    /\ LET b == BoundsIntersects(grp.bounds, gray)
       IN  IF b.panic THEN gpc' = "panicked"
           ELSE IF b.value /\ Len(grp.children) > 0 THEN gpc' = "children"
           ELSE gpc' = "done"
    /\ UNCHANGED <<grp, gray, gk, gxs, gvisited>>
    /\ UNCHANGED notGroup

\* A plausible slip: the children are visited whatever the bounds say.
GroupLocalIntersectsUnpruned ==
    /\ gpc = "local"
    /\ IF Len(grp.children) > 0
       THEN LET b == BoundsIntersects(grp.bounds, gray)
            IN  IF b.panic THEN gpc' = "panicked" ELSE gpc' = "children"
       ELSE gpc' = "done"
    /\ UNCHANGED <<grp, gray, gk, gxs, gvisited>>
    /\ UNCHANGED notGroup

\* Group::local_intersects, the condition:
\* self.children.len() > 0 && self.local_bounds().intersects(&ray);
\* the else branch returns vec![].
GroupLocalIntersects ==
    /\ gpc = "local"
    /\ IF Len(grp.children) > 0
       THEN LET b == BoundsIntersects(grp.bounds, gray)
            IN  IF b.panic THEN gpc' = "panicked"
                ELSE IF b.value THEN gpc' = "children"
                ELSE gpc' = "done"
       ELSE gpc' = "done"
    /\ UNCHANGED <<grp, gray, gk, gxs, gvisited>>
    /\ UNCHANGED notGroup

\* Shape::material of a Group: self.children[0].material()
RECURSIVE ShapeMaterial(_)
ShapeMaterial(o) ==
    IF o.kind = "group" THEN ShapeMaterial(o.children[1]) ELSE o.material

\* The wrapped intersections of a list of children, in child order; panic
\* when a child's intersects panics.
RECURSIVE ChildIntersects(_, _)
RECURSIVE ChildrenXs(_, _, _)
ChildrenXs(g, cs, r) ==
    IF cs = <<>> THEN [panic |-> FALSE, xs |-> <<>>]
    ELSE LET head == ChildIntersects(Head(cs), r)
             rest == ChildrenXs(g, Tail(cs), r)
         IN  [panic |-> head.panic \/ rest.panic,
              xs |-> [k \in 1..Len(head.xs) |->
                         intersection(head.xs[k].t, Wrap(g, head.xs[k].object))]
                     \o rest.xs]

\* object.intersects(object, &ray) of a child: a primitive's intersects, or
\* for a Group Shape::intersects and Group::local_intersects as a whole.
ChildIntersects(c, r) ==
    IF c.kind # "group" THEN [panic |-> FALSE, xs |-> ShapeIntersects(c, r)]
    ELSE LET local_ray == RayTransform(r, c.invtransform)
             b == BoundsIntersects(c.bounds, local_ray)
             all == ChildrenXs(c, c.children, local_ray)
         IN  IF Len(c.children) = 0 THEN [panic |-> FALSE, xs |-> <<>>]
             ELSE IF b.panic THEN [panic |-> TRUE, xs |-> <<>>]
             ELSE IF ~b.value THEN [panic |-> FALSE, xs |-> <<>>]
             ELSE IF all.panic \/ \E k \in 1..Len(all.xs) : IsNaN(all.xs[k].t)
                  THEN [panic |-> TRUE, xs |-> <<>>]
             ELSE [panic |-> FALSE, xs |-> SortByQ(all.xs)]

\* The flat_map and map over the children: the next child's intersects, its
\* intersections' objects wrapped.
GroupVisitChild ==
    /\ gpc = "children"
    /\ gk < Len(grp.children)
    /\ LET c == grp.children[gk + 1]
           got == ChildIntersects(c, gray)
       IN  IF got.panic
           THEN gpc' = "panicked" /\ UNCHANGED gxs
           ELSE /\ gxs' = gxs \o [k \in 1..Len(got.xs) |->
                                    intersection(got.xs[k].t,
                                                 Wrap(grp, got.xs[k].object))]
                /\ UNCHANGED gpc
    /\ gvisited' = Append(gvisited, grp.children[gk + 1].id)
    /\ gk' = gk + 1
    /\ UNCHANGED <<grp, gray>>
    /\ UNCHANGED notGroup

\* collect, then xs.sort_by(partial_cmp.unwrap()); xs is returned.
GroupSort ==
    /\ gpc = "children"
    /\ gk = Len(grp.children)
    /\ IF \E k \in 1..Len(gxs) : IsNaN(gxs[k].t)
       THEN gpc' = "panicked" /\ UNCHANGED gxs
       ELSE gpc' = "done" /\ gxs' = SortByQ(gxs)
    /\ UNCHANGED <<grp, gray, gk, gvisited>>
    /\ UNCHANGED notGroup

GroupStart ==
    /\ grp = NewGroup
    /\ gray = NewRay(<<0, 0, 0>>, <<0, 0, 0>>)
    /\ gpc = "build"
    /\ gk = 0
    /\ gxs = <<>>
    /\ gvisited = <<>>

GroupIdle ==
    /\ grp = NewGroup
    /\ gray = NewRay(<<0, 0, 0>>, <<0, 0, 0>>)
    /\ gpc = "idle"
    /\ gk = 0
    /\ gxs = <<>>
    /\ gvisited = <<>>

NextGroup ==
    \/ \E c \in GroupShapes : GroupAddChild(c)
    \/ \E M \in GroupInvTransforms : GroupSetTransform(M)
    \/ \E r \in GroupRays : GroupIntersects(r)
    \/ GroupLocalIntersects
    \/ GroupVisitChild
    \/ GroupSort

\* A group nested in a group: two cubes of another material, the group moved
\* by (0, 0, 3).
InnerGroup ==
    LET a == [cube("i0", 0, 0, 0) EXCEPT !.material = Material(1, 0, 2, 1)]
        b == [cube("i1", 0, 0, -3) EXCEPT !.material = Material(1, 0, 2, 1)]
        g == add_child_rc(add_child_rc(
                 [NewGroup EXCEPT !.invtransform = inverse(translation(0, 0, 3))],
                 a), b)
    IN  [kind |-> "group", id |-> "g1", invtransform |-> g.invtransform,
         children |-> g.children, bounds |-> g.bounds]

\* The children of the outer group: primitives and the inner group.
NestShapes == {cube("c0", 0, 0, 0), cube("c2", 0, 0, -3), InnerGroup}

\* Rays along z through the children and beside them, and slanted ones.
NestRays ==
    {NewRay(<<ox, 0, oz>>, <<0, dy, dz>>) :
        ox \in {0, Far}, oz \in {-Far, 0, Far + Far}, dy \in {0, 1}, dz \in {-1, 1}}

NextNest ==
    \/ \E c \in NestShapes : GroupAddChild(c)
    \/ \E M \in GroupInvTransforms : GroupSetTransform(M)
    \/ \E r \in NestRays : GroupIntersects(r)
    \/ GroupLocalIntersects
    \/ GroupVisitChild
    \/ GroupSort

(***************************************************************************)
(* world.rs: World::intersects on objects that are primitives and groups   *)
(***************************************************************************)
MaxObjects == 2

\* A group of a cube and a plane.
PlaneGroup ==
    LET g == add_child_rc(add_child_rc(NewGroup, cube("c0", 0, 0, 0)),
                          plane("p0", 0, 0, 0))
    IN  [kind |-> "group", id |-> "g2", invtransform |-> g.invtransform,
         children |-> g.children, bounds |-> g.bounds]

\* The objects of a world.
WorldObjects ==
    {cube("c0", 0, 0, 0), cube("c2", 0, 0, -3), plane("p1", 0, 3, 0),
     InnerGroup, PlaneGroup}

WorldRays == NestRays \cup {NewRay(<<0, 0, -Far>>, <<-1, 1, -1>>)}

\* World::intersects: every object's intersects in object order, collected,
\* sorted by t with partial_cmp().unwrap(). `per` keeps what each object
\* returned.
world_intersects(objects, r) ==
    LET per == [k \in 1..Len(objects) |-> ChildIntersects(objects[k], r)]
        all == Flatten([k \in 1..Len(objects) |-> per[k].xs])
    IN  IF \/ \E k \in 1..Len(objects) : per[k].panic
           \/ \E k \in 1..Len(all) : IsNaN(all[k].t)
        THEN [panic |-> TRUE, per |-> per, xs |-> <<>>]
        ELSE [panic |-> FALSE, per |-> per, xs |-> SortByQ(all)]

\* w.intersects(&r)
WorldIntersectsCall ==
    /\ probe.fn = "intersects"
    /\ ~probe.called
    /\ probe' = [probe EXCEPT !.called = TRUE,
                              !.out = world_intersects(probe.objects, probe.ray)]
    /\ UNCHANGED notProbe

(***************************************************************************)
(* Scenes                                                                  *)
(***************************************************************************)
Matte == ShapeOf("matte", Material(0, 0, 2, 3), "identity")

Mirror == ShapeOf("mirror", Material(1, 0, 2, 1), "identity")

Glass == ShapeOf("glass", Material(2, 3, 3, 1), "identity")

Clear == ShapeOf("clear", Material(0, 2, 3, 2), "identity")

Other(ray) == IF ray = "r1" THEN "r2" ELSE "r1"

\* What a ray meets: the intersections the objects report (in object order),
\* 1 - cos_i^2 at the hit (in units of 1 / SinDen), the Schlick polynomial's
\* value there, and the rays that leave the hit.
View(ray, xs, sin2) ==
    [xs |-> xs, sin2 |-> sin2, reflectance |-> 0,
     reflect |-> Other(ray), refract |-> ray]

\* The ray misses everything.
Miss(ray) == View(ray, <<>>, 0)

\* The ray starts outside the object and crosses it.
Crossing(ray, o) == View(ray, <<intersection(1, o), intersection(3, o)>>, 0)

\* The ray starts inside the object and leaves it at a grazing angle.
Leaving(ray, o) ==
    View(ray, <<intersection(-1, o), intersection(1, o)>>, SinDen \div 2)

ViewsOf(ray) ==
    {Miss(ray), Crossing(ray, Matte), Crossing(ray, Mirror),
     Crossing(ray, Glass), Crossing(ray, Clear), Leaving(ray, Glass)}

MaxLights == 2
MaxRemaining == 2

Worlds ==
    {[lights |-> n, view |-> v] :
        n \in 0..MaxLights,
        v \in {f \in [Rays -> UNION {ViewsOf(r) : r \in Rays}] :
                  \A r \in Rays : f[r] \in ViewsOf(r)}}

\* The computations of the ray's hit, as the tests build them.
CompsOf(w, ray) ==
    LET xs == intersects(w, ray)
    IN  prepare_computations(hit(xs)[1], w.view[ray], xs)

RootFrame(w, r) ==
    CASE r.fn = "color_at" -> ColorAtFrame(r.ray, r.remaining)
      [] r.fn = "shade_hit" -> ShadeHitFrame(CompsOf(w, r.ray), r.remaining)
      [] r.fn = "reflected_color" ->
             ReflectedFrame(CompsOf(w, r.ray), r.remaining)
      [] r.fn = "refracted_color" ->
             RefractedFrame(CompsOf(w, r.ray), r.remaining)

\* The calls made from outside: color_at by the camera with MAX_REFLECTIONS
\* (the scenes rendered have one light), and each of the four functions by
\* the tests with a small remaining.
Roots(w) ==
    {r \in [fn : {"color_at", "shade_hit", "reflected_color", "refracted_color"},
            ray : {"r1"}, remaining : 0..MaxRemaining] :
        r.fn # "color_at" => hit(intersects(w, r.ray)) # <<>>}
    \cup {r \in {[fn |-> "color_at", ray |-> "r1",
                  remaining |-> MAX_REFLECTIONS]} : w.lights = 1}

TraceStart(W) ==
    /\ world \in W
    /\ root \in Roots(world)
    /\ stack = <<RootFrame(world, root)>>
    /\ ret = NoRet

TraceIdle ==
    /\ world = [lights |-> 0, view |-> [r \in Rays |-> Miss(r)]]
    /\ root = [fn |-> "none", ray |-> "r1", remaining |-> 0]
    /\ stack = <<>>
    /\ ret = NoRet

RenderIdle ==
    /\ cam = [hsize |-> 0, vsize |-> 0]
    /\ ranges = [w \in Workers |-> [lo |-> 0, hi |-> 0]]
    /\ wi = [w \in Workers |-> 0]
    /\ wpc = [w \in Workers |-> "done"]
    /\ wcolor = [w \in Workers |-> Black]
    /\ chan = <<>>
    /\ rxOpen = FALSE
    /\ canvas = NewCanvas(0, 0)
    /\ computed = [p \in Pixels(cam) |-> 0]
    /\ sent = [p \in Pixels(cam) |-> 0]

ProbeIdle == probe = [fn |-> "none"]

InitTrace == TraceStart(Worlds) /\ RenderIdle /\ ProbeIdle /\ GroupIdle

SpecTrace == InitTrace /\ [][NextTrace]_vars

\* The calls run on one thread that is never suspended for good.
SpecTraceFair == SpecTrace /\ WF_vars(NextTrace)

(***************************************************************************)
(* Direct calls of hit (intersections.rs), on a list in any order, beside  *)
(* color_at on the world whose objects report that list                    *)
(***************************************************************************)
MaxHitXs == 3

HitTimes == {-1, 0, 1}

RECURSIVE ListsUpTo(_, _)
ListsUpTo(S, n) ==
    IF n = 0 THEN {<<>>}
    ELSE LET shorter == ListsUpTo(S, n - 1)
         IN  shorter \cup {Append(l, x) : l \in shorter, x \in S}

HitLists ==
    ListsUpTo({intersection(t, o) : t \in HitTimes, o \in {Matte, Glass}},
              MaxHitXs)

HitWorlds ==
    {[lights |-> n, view |-> [r \in Rays |-> View(r, xs, 0)]] :
        n \in {0, 1}, xs \in HitLists}

\* hit(&xs) on the list as the objects report it.
HitCall ==
    /\ probe' = [fn |-> "hit", xs |-> world.view[root.ray].xs,
                 out |-> hit(world.view[root.ray].xs)]
    /\ UNCHANGED notProbe

InitHit ==
    /\ world \in HitWorlds
    /\ root \in [fn : {"color_at"}, ray : {"r1"}, remaining : {0, 1}]
    /\ stack = <<RootFrame(world, root)>>
    /\ ret = NoRet
    /\ RenderIdle
    /\ ProbeIdle
    /\ GroupIdle

NextHit == HitCall \/ NextTrace

SpecHit == InitHit /\ [][NextHit]_vars

(***************************************************************************)
(* Direct calls of World::is_shadowed: the ray from the point towards the  *)
(* light is ray r1 of the world, the light is `distance` away              *)
(***************************************************************************)
ShadowTimes == {-1, 0, 1, 2, 3}

ShadowDistances == {1, 2}

ShadowLists ==
    ListsUpTo({intersection(t, Matte) : t \in ShadowTimes}, MaxHitXs)

\* A plausible slip: an object at the very distance of the light shadows.
is_shadowed_inclusive(w, ray, distance) ==
    LET h == hit(intersects(w, ray))
    IN  IF h = <<>> THEN FALSE ELSE h[1].t <= distance

\* World::is_shadowed: hit(&intersections).map_or(false, |h| h.t < distance)
is_shadowed(w, ray, distance) ==
    LET h == hit(intersects(w, ray))
    IN  IF h = <<>> THEN FALSE ELSE h[1].t < distance

ShadowCall ==
    /\ probe' = [fn |-> "is_shadowed", xs |-> world.view[root.ray].xs,
                 distance |-> root.distance,
                 out |-> is_shadowed(world, root.ray, root.distance)]
    /\ UNCHANGED notProbe

InitShadow ==
    /\ world \in {[lights |-> 1, view |-> [r \in Rays |-> View(r, xs, 0)]] :
                     xs \in ShadowLists}
    /\ root \in [fn : {"is_shadowed"}, ray : {"r1"}, distance : ShadowDistances]
    /\ stack = <<>>
    /\ ret = NoRet
    /\ RenderIdle
    /\ ProbeIdle
    /\ GroupIdle

NextShadow == ShadowCall

SpecShadow == InitShadow /\ [][NextShadow]_vars

(***************************************************************************)
(* Direct calls of Material::lighting (materials.rs). Vectors have integer *)
(* components; lightv is kept at the length of light.position - position   *)
(* (normalising it scales the dot products by a positive factor and        *)
(* changes no sign), the normal is a unit axis vector. Colours are in      *)
(* tenths of the white light's intensity.                                  *)
(***************************************************************************)
\* Tuple::dot of two vectors
Dot(a, b) == a[1] * b[1] + a[2] * b[2] + a[3] * b[3]

\* -v
Neg(v) == [c \in 1..3 |-> -v[c]]

\* Tuple::reflect: self - normal * 2. * self.dot(normal)
Reflect(v, normal) == [c \in 1..3 |-> v[c] - normal[c] * 2 * Dot(v, normal)]

\* material(): ambient 0.1, diffuse 0.9, specular 0.9, white, no pattern.
DefaultMaterial == [ambient |-> 1, diffuse |-> 9, specular |-> 9]

\* Material::lighting under a white light. reflect_dot_eye.powf(shininess)
\* is positive for a positive base; it is kept as the base itself.
material_lighting(m, lightv, eye, normal, in_shadow) ==
    LET ambient == m.ambient
        light_dot_normal == Dot(lightv, normal)
        diffuse == IF light_dot_normal < 0 \/ in_shadow THEN Black
                   ELSE m.diffuse * light_dot_normal
        reflectv == Reflect(Neg(lightv), normal)
        reflect_dot_eye == Dot(reflectv, eye)
        specular == IF reflect_dot_eye <= 0 \/ in_shadow THEN Black
                    ELSE m.specular * reflect_dot_eye
    IN  [ambient |-> ambient, diffuse |-> diffuse, specular |-> specular,
         out |-> ambient + diffuse + specular]

LightingVectors == {<<x, y, z>> : x, y, z \in {-1, 0, 1}} \ {<<0, 0, 0>>}

LightingNormals == {<<0, 0, 1>>, <<0, 0, -1>>, <<0, 1, 0>>}

LightingCall ==
    /\ probe.fn = "lighting"
    /\ ~probe.called
    /\ probe' = [probe EXCEPT
                    !.called = TRUE,
                    !.res = material_lighting(DefaultMaterial, probe.lightv,
                                probe.eye, probe.normal, probe.in_shadow)]
    /\ UNCHANGED notProbe

InitLighting ==
    /\ probe \in [fn : {"lighting"}, called : {FALSE},
                   lightv : LightingVectors, eye : LightingVectors,
                   normal : LightingNormals, in_shadow : BOOLEAN,
                   res : {[ambient |-> Black, diffuse |-> Black,
                           specular |-> Black, out |-> Black]}]
    /\ RenderIdle
    /\ TraceIdle
    /\ GroupIdle

NextLighting == LightingCall

SpecLighting == InitLighting /\ [][NextLighting]_vars

(***************************************************************************)
(* matrices.rs: 4x4 matrices of f64 and Matrix::inverse by cofactors.      *)
(* A finite value is an exact fraction; f64's range is kept: a result      *)
(* beyond FloatMax is an infinity (FloatMax stands for f64::MAX, scaled    *)
(* down to the sizes of the matrices used here). Rounding is not modelled, *)
(* nor the sign of zero.                                                   *)
(***************************************************************************)
FloatMax == 1000000

Abs(n) == IF n < 0 THEN -n ELSE n

RECURSIVE GCD(_, _)
GCD(a, b) == IF b = 0 THEN a ELSE GCD(b, a % b)

Finite(x) == x.k = "fin"

\* The sign of a value that is not NaN.
Sign(x) == IF x.k = "pinf" THEN 1 ELSE IF x.k = "ninf" THEN -1
           ELSE IF x.n > 0 THEN 1 ELSE IF x.n < 0 THEN -1 ELSE 0

Inf(sign) == IF sign < 0 THEN NInf ELSE PInf

\* The f64 for the fraction n / d (d > 0): in lowest terms, or an infinity
\* when it is out of range.
FNorm(n, d) ==
    IF n = 0 THEN Fin(0, 1)
    ELSE IF Abs(n) \div d > FloatMax THEN Inf(n)
    ELSE LET g == GCD(Abs(n), d) IN Fin(n \div g, d \div g)

FNeg(x) == IF x.k = "pinf" THEN NInf ELSE IF x.k = "ninf" THEN PInf
           ELSE IF x.k = "nan" THEN NaN ELSE Fin(-x.n, x.d)

\* x * y: 0 * infinity is NaN; a product out of range is an infinity.
FMul(x, y) ==
    IF IsNaN(x) \/ IsNaN(y) THEN NaN
    ELSE IF ~Finite(x) \/ ~Finite(y)
         THEN (IF Sign(x) * Sign(y) = 0 THEN NaN ELSE Inf(Sign(x) * Sign(y)))
    ELSE IF x.d = 1 /\ y.d = 1 /\ y.n # 0 /\ Abs(x.n) > FloatMax \div Abs(y.n)
         THEN Inf(Sign(x) * Sign(y))
    ELSE FNorm(x.n * y.n, x.d * y.d)

\* x + y: infinity - infinity is NaN.
FAdd(x, y) ==
    IF IsNaN(x) \/ IsNaN(y) THEN NaN
    ELSE IF ~Finite(x) THEN (IF ~Finite(y) /\ y # x THEN NaN ELSE x)
    ELSE IF ~Finite(y) THEN y
    ELSE LET g == GCD(x.d, y.d)
         IN  FNorm(x.n * (y.d \div g) + y.n * (x.d \div g), (x.d \div g) * y.d)

FSub(x, y) == FAdd(x, FNeg(y))

\* x / y: 0 / 0 and infinity / infinity are NaN, x / 0 is an infinity,
\* x / infinity is 0.
FDiv(x, y) ==
    IF IsNaN(x) \/ IsNaN(y) THEN NaN
    ELSE IF ~Finite(x)
         THEN (IF ~Finite(y) THEN NaN
               ELSE IF Sign(y) < 0 THEN FNeg(x) ELSE x)
    ELSE IF ~Finite(y) THEN Fin(0, 1)
    ELSE IF y.n = 0 THEN (IF x.n = 0 THEN NaN ELSE Inf(x.n))
    ELSE FNorm(x.n * y.d * Sign(y), x.d * Abs(y.n))

\* matrix(&[..]) from integer entries.
matrix(rows) == [i \in 1..Len(rows) |-> [j \in 1..Len(rows[i]) |-> QInt(rows[i][j])]]

\* identity_matrix() as a 4x4 matrix
Identity4 == matrix(<<<<1, 0, 0, 0>>, <<0, 1, 0, 0>>, <<0, 0, 1, 0>>, <<0, 0, 0, 1>>>>)

\* fn close: (a - b).abs() <= 1e-5
close(a, b) ==
    LET diff == FSub(a, b)
    IN  Finite(diff) /\ (diff.n = 0 \/ Abs(diff.n) <= diff.d \div 100000)

\* impl PartialEq for Matrix
MatrixEq(a, b) ==
    /\ Len(a) = Len(b)
    /\ \A i \in 1..Len(a) :
          Len(a[i]) = Len(b[i]) /\ \A j \in 1..Len(a[i]) : close(a[i][j], b[i][j])

\* fn dot: the products of the pairs, folded from 0. with +
RECURSIVE DotFrom(_, _, _, _)
DotFrom(acc, a, b, k) ==
    IF k > Len(a) THEN acc
    ELSE DotFrom(FAdd(acc, FMul(a[k], b[k])), a, b, k + 1)

mat_dot(a, b) == DotFrom(QInt(0), a, b, 1)

\* Matrix::transpose
transpose(m) == [i \in 1..Len(m[1]) |-> [j \in 1..Len(m) |-> m[j][i]]]

\* impl Mul for &Matrix
MatMul(a, b) ==
    LET cols == transpose(b)
    IN  [i \in 1..Len(a) |-> [j \in 1..Len(cols) |-> mat_dot(a[i], cols[j])]]

\* A sequence without its k-th element.
Remove(seq, k) == [i \in 1..(Len(seq) - 1) |-> IF i < k THEN seq[i] ELSE seq[i + 1]]

\* Matrix::submatrix
submatrix(m, row, col) ==
    LET rows == Remove(m, row)
    IN  [i \in 1..Len(rows) |-> Remove(rows[i], col)]

RECURSIVE determinant(_)
RECURSIVE DetFrom(_, _, _)
\* Matrix::cofactor (and Matrix::minor): the signed determinant of the
\* submatrix.
cofactor(m, row, col) ==
    FMul(IF (row + col) % 2 = 0 THEN QInt(1) ELSE QInt(-1),
         determinant(submatrix(m, row, col)))

\* The loop of Matrix::determinant: det += data[0][column] * cofactor(0, column)
DetFrom(det, m, column) ==
    IF column > Len(m) THEN det
    ELSE DetFrom(FAdd(det, FMul(m[1][column], cofactor(m, 1, column))),
                 m, column + 1)

\* Matrix::determinant
determinant(m) ==
    IF Len(m) = 2
    THEN FSub(FMul(m[1][1], m[2][2]), FMul(m[1][2], m[2][1]))
    ELSE DetFrom(QInt(0), m, 1)

\* Matrix::is_invertible: determinant != 0. (true for an infinite or a NaN
\* determinant)
is_invertible(m) == LET det == determinant(m) IN ~(Finite(det) /\ det.n = 0)

\* Matrix::cofactors
cofactors(m) == [i \in 1..Len(m) |-> [j \in 1..Len(m[1]) |-> cofactor(m, i, j)]]

\* Matrix::inverse: every cofactor of the transposed cofactor matrix divided
\* by the determinant; the determinant is not tested.
MatInverse(m) ==
    LET det == determinant(m)
        ct == transpose(cofactors(m))
    IN  [i \in 1..Len(ct) |-> [j \in 1..Len(ct[1]) |-> FDiv(ct[i][j], det)]]

\* The matrices inverse is called on: transformations, a matrix with every
\* row mixed, a scaling whose determinant is out of range (2000 * 2000 is
\* beyond FloatMax as 1e160 * 1e160 is beyond f64::MAX), and the matrix of
\* testing_a_non_invertible_matrix_for_invertibility.
TestMatrices ==
    {Identity4,
     matrix(<<<<1, 0, 0, 1>>, <<0, 1, 0, -1>>, <<0, 0, 1, 2>>, <<0, 0, 0, 1>>>>),
     matrix(<<<<2, 0, 0, 0>>, <<0, 2, 0, 0>>, <<0, 0, 2, 0>>, <<0, 0, 0, 1>>>>),
     matrix(<<<<1, 0, 0, 0>>, <<0, -1, 0, 0>>, <<0, 0, 2, 0>>, <<0, 0, 0, 1>>>>),
     matrix(<<<<1, 1, 0, 0>>, <<0, 1, 0, 0>>, <<0, 0, 1, 0>>, <<0, 0, 0, 1>>>>),
     matrix(<<<<0, -1, 0, 0>>, <<1, 0, 0, 0>>, <<0, 0, 1, 0>>, <<0, 0, 0, 1>>>>),
     matrix(<<<<2, 1, 0, 1>>, <<1, 2, 1, 0>>, <<0, 1, 1, -1>>, <<1, 0, 0, 1>>>>),
     matrix(<<<<2000, 0, 0, 0>>, <<0, 2000, 0, 0>>, <<0, 0, 1, 0>>, <<0, 0, 0, 1>>>>),
     matrix(<<<<-4, 2, -2, -3>>, <<9, 6, 2, 6>>, <<0, -5, 1, -5>>, <<0, 0, 0, 0>>>>)}

\* a.inverse(), a * a.inverse(), (a * b).inverse(), b.inverse() * a.inverse()
\* and (a * b) * b.inverse(). A panic would leave no value: inverse has no
\* unwrap, index out of range or assertion, so it always returns.
MatrixCall ==
    /\ probe.fn = "inverse"
    /\ ~probe.called
    /\ LET a == probe.a
           b == probe.b
           ia == MatInverse(a)
           ib == MatInverse(b)
           ab == MatMul(a, b)
       IN  probe' = [probe EXCEPT
                       !.called = TRUE,
                       !.res = [panicked |-> FALSE, inv |-> ia,
                                a_inv |-> MatMul(a, ia),
                                inv_ab |-> MatInverse(ab),
                                invb_inva |-> MatMul(ib, ia),
                                ab_invb |-> MatMul(ab, ib)]]
    /\ UNCHANGED notProbe

InitMatrix ==
    /\ probe \in [fn : {"inverse"}, called : {FALSE}, a : TestMatrices,
                   b : TestMatrices, res : {[panicked |-> FALSE]}]
    /\ RenderIdle
    /\ TraceIdle
    /\ GroupIdle

NextMatrix == MatrixCall

SpecMatrix == InitMatrix /\ [][NextMatrix]_vars

(***************************************************************************)
(* canvas.rs: a canvas and a sequence of write_pixel calls inside it.      *)
(* `want` records, for every (x, y), the colour last written there.        *)
(***************************************************************************)
MaxWidth == 3
MaxHeight == 3

CanvasColors == {Black, 1}

InCanvas(cv) == (0..(cv.width - 1)) \X (0..(cv.height - 1))

\* c.write_pixel(x, y, color) with x < width and y < height
CanvasWrite(x, y, c) ==
    /\ probe.fn = "canvas"
    /\ ~probe.cv.panicked
    /\ <<x, y>> \in InCanvas(probe.cv)
    /\ probe' = [probe EXCEPT !.cv = write_pixel(@, x, y, c),
                              !.want = [@ EXCEPT ![<<x, y>>] = c]]
    /\ UNCHANGED notProbe

InitCanvas ==
    /\ \E width \in 1..MaxWidth, height \in 1..MaxHeight :
          probe = [fn |-> "canvas", cv |-> NewCanvas(width, height),
                   want |-> [p \in (0..(width - 1)) \X (0..(height - 1)) |-> Black]]
    /\ RenderIdle
    /\ TraceIdle
    /\ GroupIdle

NextCanvas ==
    \E x \in 0..(MaxWidth - 1), y \in 0..(MaxHeight - 1), c \in CanvasColors :
        CanvasWrite(x, y, c)

SpecCanvas == InitCanvas /\ [][NextCanvas]_vars

(***************************************************************************)
(* canvas.rs: one write_pixel and one pixel_at on a new canvas, with any   *)
(* coordinates, those outside the canvas included.                         *)
(***************************************************************************)
\* c.write_pixel(x, y, color)
CanvasWriteAny(x, y, c) ==
    /\ probe.fn = "write_pixel"
    /\ probe.wrote = <<>>
    /\ probe.read = <<>>
    /\ probe' = [probe EXCEPT !.cv = write_pixel(@, x, y, c),
                              !.wrote = <<[x |-> x, y |-> y, c |-> c]>>]
    /\ UNCHANGED notProbe

\* c.pixel_at(x, y): pixels[width * y + x]; an index past the end of the Vec
\* panics.
CanvasReadAny(x, y) ==
    /\ probe.fn = "write_pixel"
    /\ probe.read = <<>>
    /\ ~probe.cv.panicked
    /\ LET i == probe.cv.width * y + x
       IN  probe' = [probe EXCEPT
                      !.read = <<[x |-> x, y |-> y,
                                  panicked |-> i >= Len(probe.cv.pixels),
                                  out |-> IF i < Len(probe.cv.pixels)
                                          THEN pixel_at(probe.cv, x, y)
                                          ELSE Black]>>]
    /\ UNCHANGED notProbe

InitCanvasAny ==
    /\ \E width \in 1..MaxWidth, height \in 1..MaxHeight :
          probe = [fn |-> "write_pixel", cv |-> NewCanvas(width, height),
                   wrote |-> <<>>, read |-> <<>>]
    /\ RenderIdle
    /\ TraceIdle
    /\ GroupIdle

NextCanvasAny ==
    \E x \in 0..MaxWidth, y \in 0..MaxHeight :
        \/ \E c \in CanvasColors : CanvasWriteAny(x, y, c)
        \/ CanvasReadAny(x, y)

SpecCanvasAny == InitCanvasAny /\ [][NextCanvasAny]_vars

(***************************************************************************)
(* ppm.rs: Canvas::to_ppm. A String is a sequence of one-character         *)
(* strings; a colour component is an f64 given in tenths.                  *)
(***************************************************************************)
MaxPpmWidth == 6

PpmHeights == {1, 2}

\* color(1., 0.8, 0.6) of splitting_long_lines_in_ppm_files (255 204 153), and
\* color(1., 0.8, 0.1) whose last value has two digits (26): six pixels make
\* rows of 70 and of 71 characters.
PpmColors == {<<10, 8, 6>>, <<10, 8, 1>>}

DigitChar == <<"0", "1", "2", "3", "4", "5", "6", "7", "8", "9">>

\* f64::to_string of a whole number n >= 0
RECURSIVE to_string(_)
to_string(n) ==
    IF n < 10 THEN <<DigitChar[n + 1]>>
    ELSE to_string(n \div 10) \o <<DigitChar[(n % 10) + 1]>>

\* usize Display
usize_to_string(n) == to_string(n)

\* fn clip_range(f, 0.0, 255.0), f in tenths: up above 1.0, low below 0.0,
\* (f * up).ceil() between
clip_range(f, low, up) ==
    IF f > 10 THEN up
    ELSE IF f < 0 THEN low
    ELSE (f * up + 9) \div 10

\* fn colors
colors(c) == [k \in 1..3 |-> to_string(clip_range(c[k], 0, 255))]

\* A plausible slip: the space that joins the word to the line is not counted.
RECURSIVE wrap_uncounted_space(_, _, _)
wrap_uncounted_space(lines, words, max_len) ==
    IF words = <<>> THEN lines
    ELSE LET word == Head(words)
             n == Len(lines)
         IN  IF n = 0
             THEN wrap_uncounted_space(<<word>>, Tail(words), max_len)
             ELSE IF Len(lines[n]) + Len(word) <= max_len
                  THEN wrap_uncounted_space(
                         [lines EXCEPT ![n] = @ \o <<" ">> \o word],
                         Tail(words), max_len)
                  ELSE wrap_uncounted_space(Append(lines, word), Tail(words), max_len)

\* fn wrap: the fold over the words, from vec![]; the last line is popped
\* and pushed back with the word joined to it by a space when that fits in
\* max_len, else pushed back and the word pushed as a new line.
RECURSIVE wrap(_, _, _)
wrap(lines, words, max_len) ==
    IF words = <<>> THEN lines
    ELSE LET word == Head(words)
             n == Len(lines)
         IN  IF n = 0
             THEN wrap(<<word>>, Tail(words), max_len)
             ELSE IF Len(lines[n]) + 1 + Len(word) <= max_len
                  THEN wrap([lines EXCEPT ![n] = @ \o <<" ">> \o word],
                            Tail(words), max_len)
                  ELSE wrap(Append(lines, word), Tail(words), max_len)

\* [String]::join(sep)
RECURSIVE join(_, _)
join(strs, sep) ==
    IF strs = <<>> THEN <<>>
    ELSE IF Len(strs) = 1 THEN strs[1]
    ELSE strs[1] \o sep \o join(Tail(strs), sep)

\* self.pixels.chunks(self.width): width = 0 panics, not drawn here.
chunks(pixels, width) ==
    [r \in 1..((Len(pixels) + width - 1) \div width) |->
        SubSeq(pixels, (r - 1) * width + 1,
               IF r * width < Len(pixels) THEN r * width ELSE Len(pixels))]

\* The words of one row: the colors of its pixels in order.
RowWords(row) == Flatten([k \in 1..Len(row) |-> colors(row[k])])

\* Canvas::ppm_pixels
ppm_pixels(cv) ==
    LET rows == chunks(cv.pixels, cv.width)
        lines == Flatten([r \in 1..Len(rows) |-> wrap(<<>>, RowWords(rows[r]), 70)])
    IN  join(lines, <<"\n">>)

\* Canvas::ppm_header
ppm_header(cv) ==
    <<"P", "3", "\n">> \o usize_to_string(cv.width) \o <<" ">>
        \o usize_to_string(cv.height) \o <<"\n", "2", "5", "5">>

\* Canvas::to_ppm
to_ppm(cv) == ppm_header(cv) \o <<"\n">> \o ppm_pixels(cv) \o <<"\n">>

\* c.to_ppm()
PpmCall ==
    /\ probe.fn = "to_ppm"
    /\ ~probe.called
    /\ probe' = [probe EXCEPT !.called = TRUE, !.out = to_ppm(probe.cv)]
    /\ UNCHANGED notProbe

InitPpm ==
    /\ \E width \in 1..MaxPpmWidth, height \in PpmHeights :
          \E pixels \in [1..(width * height) -> PpmColors] :
              probe = [fn |-> "to_ppm", called |-> FALSE, out |-> <<>>,
                       cv |-> [width |-> width, height |-> height,
                               pixels |-> pixels]]
    /\ RenderIdle
    /\ TraceIdle
    /\ GroupIdle

NextPpm == PpmCall

SpecPpm == InitPpm /\ [][NextPpm]_vars

(***************************************************************************)
(* obj_file.rs: parse_obj, one line of the text per step. A line is the    *)
(* sequence of the pieces between its single spaces (line.split(' ')): the *)
(* empty line is <<"">>, two spaces in a row give an empty piece.          *)
(***************************************************************************)
MaxObjLines == 3

\* str::parse::<f64>() of a piece
parse_f64(tok) ==
    CASE tok = "1" -> [ok |-> TRUE, v |-> 1]
      [] tok = "2" -> [ok |-> TRUE, v |-> 2]
      [] tok = "3" -> [ok |-> TRUE, v |-> 3]
      [] tok = "-1" -> [ok |-> TRUE, v |-> -1]
      [] OTHER -> [ok |-> FALSE]

\* n.split('/').take(1): the piece up to its first slash
FirstField(tok) ==
    CASE tok = "1/1/1" -> "1"
      [] tok = "2//2" -> "2"
      [] tok = "3/3/3" -> "3"
      [] OTHER -> tok

\* str::parse::<usize>() of a piece: no sign, no fraction
parse_usize(tok) ==
    CASE tok = "1" -> [ok |-> TRUE, v |-> 1]
      [] tok = "2" -> [ok |-> TRUE, v |-> 2]
      [] tok = "3" -> [ok |-> TRUE, v |-> 3]
      [] OTHER -> [ok |-> FALSE]

\* line.starts_with(prefix + " ")
StartsWith(line, prefix) == Len(line) >= 2 /\ line[1] = prefix

\* line.trim_start_matches(prefix + " "): every leading repetition goes
RECURSIVE TrimStartMatches(_, _)
TrimStartMatches(line, prefix) ==
    IF StartsWith(line, prefix) THEN TrimStartMatches(Tail(line), prefix)
    ELSE line

\* str::trim followed by split(' '): the empty pieces at both ends go; an
\* empty text splits into one empty piece
RECURSIVE Trim(_)
Trim(line) ==
    IF Len(line) = 1 THEN line
    ELSE IF Head(line) = "" THEN Trim(Tail(line))
    ELSE IF line[Len(line)] = "" THEN Trim(SubSeq(line, 1, Len(line) - 1))
    ELSE line

\* fn parse_vertex: nums[0], nums[1], nums[2] are indexed and parsed in turn;
\* a parse error returns Err at once, an index past the end of nums panics.
parse_vertex(line) ==
    LET nums == Trim(TrimStartMatches(line, "v"))
        Coord(k) == parse_f64(nums[k])
    IN  IF ~Coord(1).ok THEN [kind |-> "err"]
        ELSE IF Len(nums) < 2 THEN [kind |-> "panic"]
        ELSE IF ~Coord(2).ok THEN [kind |-> "err"]
        ELSE IF Len(nums) < 3 THEN [kind |-> "panic"]
        ELSE IF ~Coord(3).ok THEN [kind |-> "err"]
        ELSE [kind |-> "ok", point |-> <<Coord(1).v, Coord(2).v, Coord(3).v>>]

\* fn parse_group
parse_group(line) ==
    IF ~StartsWith(line, "g") THEN [some |-> FALSE]
    ELSE [some |-> TRUE, name |-> TrimStartMatches(line, "g")]

\* filter_map(.. parse::<usize>().ok()) over the pieces
RECURSIVE FilterUsize(_)
FilterUsize(toks) ==
    IF toks = <<>> THEN <<>>
    ELSE LET n == parse_usize(FirstField(Head(toks)))
         IN  (IF n.ok THEN <<n.v>> ELSE <<>>) \o FilterUsize(Tail(toks))

\* fn parse_polygon
parse_polygon(line) ==
    IF ~StartsWith(line, "f") THEN [some |-> FALSE]
    ELSE [some |-> TRUE, polygon |-> FilterUsize(TrimStartMatches(line, "f"))]

\* fn fan_triangulation: polygon.windows(2); next().unwrap() panics when
\* there is no window; every further window [b, c] indexes vertices[a - 1],
\* vertices[b - 1], vertices[c - 1], which panics past the end (and a - 1
\* on 0).
fan_triangulation(polygon, vertices) ==
    IF Len(polygon) < 2 THEN [panic |-> TRUE]
    ELSE LET a == polygon[1]
             InRange(i) == 1 <= i /\ i <= Len(vertices)
         IN  IF \E k \in 2..(Len(polygon) - 1) :
                    ~(InRange(a) /\ InRange(polygon[k]) /\ InRange(polygon[k + 1]))
             THEN [panic |-> TRUE]
             ELSE [panic |-> FALSE,
                   triangles |-> [k \in 1..(Len(polygon) - 2) |->
                                     <<vertices[a], vertices[polygon[k + 1]],
                                       vertices[polygon[k + 2]]>>]]

\* Parsed::add_group: "" names the default group
add_group(parsed, n, g) ==
    IF n = <<"">> \/ n = <<>>
    THEN [parsed EXCEPT !.default_group = g]
    ELSE [parsed EXCEPT !.groups = [m \in (DOMAIN @) \cup {n} |->
                                       IF m = n THEN g ELSE @[m]]]

\* The lines parse_obj is given: records of the tests, records cut short,
\* records with a piece that is no number, and other text.
ObjLines ==
    {<<"v", "1", "2", "3">>, <<"v", "-1", "1", "2">>,
     <<"v", "1", "2">>, <<"1">>, <<"1", "2", "3">>, <<"v", "1", "x", "3">>,
     <<"f", "1", "2", "3">>, <<"f", "1/1/1", "2//2", "3/3/3">>,
     <<"f", "1">>, <<"f", "1", "2">>, <<"f", "1", "x", "2", "3">>,
     <<"g", "FirstGroup">>, <<"g">>,
     <<"who", "traveled", "much">>, <<"">>}

\* The closure of the fold in parse_obj, on one line.
ObjLine(line) ==
    /\ probe.fn = "parse_obj"
    /\ ~probe.panicked
    /\ ~probe.done
    /\ probe.nlines < MaxObjLines
    /\ LET v == parse_vertex(line)
           f == parse_polygon(line)
           g == parse_group(line)
           step == [probe EXCEPT !.nlines = @ + 1, !.line = line]
       IN  probe' =
             IF v.kind = "panic" THEN [step EXCEPT !.panicked = TRUE]
             ELSE IF v.kind = "ok"
                  THEN [step EXCEPT !.parsed.vertices = Append(@, v.point)]
             ELSE IF f.some
                  THEN LET ts == fan_triangulation(f.polygon, probe.parsed.vertices)
                       IN  IF ts.panic THEN [step EXCEPT !.panicked = TRUE]
                           ELSE [step EXCEPT !.last_group = @ \o ts.triangles]
             ELSE IF g.some
                  THEN [step EXCEPT
                          !.parsed = add_group(@, probe.last_name, probe.last_group),
                          !.last_group = <<>>,
                          !.last_name = g.name]
             ELSE step
    /\ UNCHANGED notProbe

\* The end of the text: parsed.add_group(last_name, last_group)
ObjEnd ==
    /\ probe.fn = "parse_obj"
    /\ ~probe.panicked
    /\ ~probe.done
    /\ probe' = [probe EXCEPT
                   !.done = TRUE,
                   !.parsed = add_group(@, probe.last_name, probe.last_group)]
    /\ UNCHANGED notProbe

\* parse_obj on entry: empty_result, "" and group()
InitObj ==
    /\ probe = [fn |-> "parse_obj", panicked |-> FALSE, done |-> FALSE,
                nlines |-> 0, line |-> <<>>,
                parsed |-> [vertices |-> <<>>, default_group |-> <<>>,
                            groups |-> <<>>],
                last_name |-> <<"">>, last_group |-> <<>>]
    /\ RenderIdle
    /\ TraceIdle
    /\ GroupIdle

NextObj == (\E line \in ObjLines : ObjLine(line)) \/ ObjEnd

SpecObj == InitObj /\ [][NextObj]_vars

(***************************************************************************)
(* Direct calls of is_internal_reflection and schlick on the same Comps    *)
(***************************************************************************)
\* Refractive indices in half units, 0.5 to 2.5: those of the tests (1.0,
\* 1.5, 2.0, 2.5) and one below 1.
RefractiveIndices == {1, 2, 3, 4, 5}

\* comps.is_internal_reflection() and comps.schlick()
SchlickCall ==
    /\ probe.fn = "schlick"
    /\ ~probe.called
    /\ probe' = [probe EXCEPT
                   !.called = TRUE,
                   !.out = [internal |-> is_internal_reflection(probe.comps),
                            schlick |-> schlick(probe.comps)]]
    /\ UNCHANGED notProbe

InitSchlick ==
    /\ \E n1 \in RefractiveIndices, n2 \in RefractiveIndices, sin2 \in 0..SinDen :
          probe = [fn |-> "schlick", called |-> FALSE,
                   comps |-> [n1 |-> n1, n2 |-> n2, sin2 |-> sin2,
                              reflectance |-> 0],
                   out |-> [internal |-> FALSE, schlick |-> 0]]
    /\ RenderIdle
    /\ TraceIdle
    /\ GroupIdle

NextSchlick == SchlickCall

SpecSchlick == InitSchlick /\ [][NextSchlick]_vars

(***************************************************************************)
(* cones.rs: the double cone x^2 + z^2 = y^2 between minimum and maximum.  *)
(* Coordinates are exact fractions; the rays are those whose discriminant  *)
(* has an exact square root, so that no rounding enters.                   *)
(***************************************************************************)
MaxConeCoord == 2

\* EPSILON of intersections.rs, 0.0001
EPSILON == Fin(1, 10000)

FAbs(x) == IF Sign(x) < 0 THEN FNeg(x) ELSE x

\* x.powi(2)
Powi2(x) == FMul(x, x)

IsSquare(n) == \E s \in 0..n : s * s = n

IntRoot(n) == CHOOSE s \in 0..n : s * s = n

\* x.sqrt() for x >= 0: the fraction when there is one, else the root kept
\* as it stands.
FSqrt(x) ==
    IF Finite(x) /\ IsSquare(x.n) /\ IsSquare(x.d)
    THEN Fin(IntRoot(x.n), IntRoot(x.d))
    ELSE [k |-> "root", n |-> x.n, d |-> x.d, neg |-> FALSE]

\* -(x.sqrt())
FNegSqrt(x) ==
    IF Finite(FSqrt(x)) THEN FNeg(FSqrt(x)) ELSE [FSqrt(x) EXCEPT !.neg = TRUE]

\* The ray's origin and direction as f64 triples.
RayOrigin(r) == [k \in 1..3 |-> Fin(r.origin[k], 1)]

RayDirection(r) == [k \in 1..3 |-> Fin(r.direction[k], 1)]

\* ray.origin + t * ray.direction
ConePoint(r, t) ==
    [k \in 1..3 |-> FAdd(RayOrigin(r)[k], FMul(t, RayDirection(r)[k]))]

\* check_cap(ray, t, r)
check_cap(ray, t, r) ==
    LET x == ConePoint(ray, t)[1]
        z == ConePoint(ray, t)[3]
    IN  QLe(FAdd(Powi2(x), Powi2(z)), Powi2(r))

\* Cone::intersect_caps: the t of the hits, in the order minimum, maximum.
intersect_caps(cone, ray) ==
    IF ~cone.closed \/ QLt(FAbs(RayDirection(ray)[2]), EPSILON) THEN <<>>
    ELSE LET T(m) == FDiv(FSub(m, RayOrigin(ray)[2]), RayDirection(ray)[2])
         IN  SelectSeq(<<[t |-> T(cone.minimum), m |-> cone.minimum],
                         [t |-> T(cone.maximum), m |-> cone.maximum]>>,
                       LAMBDA h : check_cap(ray, h.t, h.m))

\* The quadratic's coefficients of Cone::intersect_sides.
ConeA(ray) ==
    LET d == RayDirection(ray)
    IN  FAdd(FSub(Powi2(d[1]), Powi2(d[2])), Powi2(d[3]))

ConeB(ray) ==
    LET d == RayDirection(ray)
        o == RayOrigin(ray)
    IN  FMul(Fin(2, 1),
             FAdd(FSub(FMul(o[1], d[1]), FMul(o[2], d[2])), FMul(o[3], d[3])))

ConeC(ray) ==
    LET o == RayOrigin(ray)
    IN  FAdd(FSub(Powi2(o[1]), Powi2(o[2])), Powi2(o[3]))

discriminant(ray) ==
    FSub(Powi2(ConeB(ray)), FMul(FMul(Fin(4, 1), ConeA(ray)), ConeC(ray)))

\* The branch of intersect_sides taken when a is about 0 and b is not.
ConeLinear(ray) ==
    QLt(FAbs(ConeA(ray)), EPSILON) /\ QLt(EPSILON, FAbs(ConeB(ray)))

\* Cone::intersect_sides: the t of the hits.
intersect_sides(cone, ray) ==
    LET a == ConeA(ray)
        b == ConeB(ray)
        c == ConeC(ray)
        Y(t) == FAdd(RayOrigin(ray)[2], FMul(t, RayDirection(ray)[2]))
    IN  IF ConeLinear(ray)
        THEN <<FDiv(FNeg(c), FMul(Fin(2, 1), b))>>
        ELSE IF QLt(discriminant(ray), Fin(0, 1)) THEN <<>>
        ELSE SelectSeq(
                 <<FDiv(FSub(FNeg(b), FSqrt(discriminant(ray))),
                        FMul(Fin(2, 1), a)),
                   FDiv(FAdd(FNeg(b), FSqrt(discriminant(ray))),
                        FMul(Fin(2, 1), a))>>,
                 LAMBDA t : QLt(cone.minimum, Y(t)) /\ QLt(Y(t), cone.maximum))

\* Cone::local_normal_at
cone_local_normal_at(cone, p) ==
    LET dist == FAdd(Powi2(p[1]), Powi2(p[3]))
    IN  IF QLt(dist, Fin(1, 1)) /\ QLe(FSub(cone.maximum, EPSILON), p[2])
        THEN <<Fin(0, 1), Fin(1, 1), Fin(0, 1)>>
        ELSE IF QLt(dist, Fin(1, 1))
                /\ QLe(p[2], FAdd(cone.minimum, EPSILON))
        THEN <<Fin(0, 1), Fin(-1, 1), Fin(0, 1)>>
        ELSE <<p[1],
               IF QGt(p[2], Fin(0, 1)) THEN FNegSqrt(dist) ELSE FSqrt(dist),
               p[3]>>

\* cone() as it is built, the truncated closed cone of the end-cap test
\* (minimum -0.5, maximum 0.5) and a taller closed one.
Cones ==
    {[minimum |-> NInf, maximum |-> PInf, closed |-> FALSE],
     [minimum |-> Fin(-1, 2), maximum |-> Fin(1, 2), closed |-> TRUE],
     [minimum |-> Fin(-2, 1), maximum |-> Fin(2, 1), closed |-> TRUE]}

\* Rays with whole coordinates on which intersect_sides takes no inexact
\* square root.
ConeRays ==
    {r \in {NewRay(<<ox, oy, oz>>, <<dx, dy, dz>>) :
               ox \in 0..1, oy \in -MaxConeCoord..MaxConeCoord,
               oz \in -MaxConeCoord..0,
               dx \in 0..1, dy \in -1..1, dz \in 0..1} :
        /\ r.direction # <<0, 0, 0>>
        /\ \/ ConeLinear(r)
           \/ QLt(discriminant(r), Fin(0, 1))
           \/ IsSquare(discriminant(r).n)}

\* cone.local_intersects(ray), then local_normal_at at the point of every
\* hit on a cap.
ConeCall ==
    /\ probe.fn = "cone"
    /\ ~probe.called
    /\ LET caps == intersect_caps(probe.cone, probe.ray)
       IN  probe' = [probe EXCEPT
                      !.called = TRUE,
                      !.sides = intersect_sides(probe.cone, probe.ray),
                      !.caps = caps,
                      !.normals =
                          [k \in 1..Len(caps) |->
                              cone_local_normal_at(
                                  probe.cone,
                                  ConePoint(probe.ray, caps[k].t))]]
    /\ UNCHANGED notProbe

InitCone ==
    /\ \E cone \in Cones, ray \in ConeRays :
          probe = [fn |-> "cone", called |-> FALSE, cone |-> cone, ray |-> ray,
                   sides |-> <<>>, caps |-> <<>>, normals |-> <<>>]
    /\ RenderIdle
    /\ TraceIdle
    /\ GroupIdle

NextCone == ConeCall

SpecCone == InitCone /\ [][NextCone]_vars

(***************************************************************************)
(* Direct calls of prepare_computations on a list sorted by t              *)
(***************************************************************************)
MaxPrepXs == 3
MaxPrepT == 3

\* The three overlapping glass spheres of finding_n1_and_n2_at_various_
\* intersections: refractive indices 1.5, 2.0 and 2.5.
SphereA == ShapeOf("A", Material(0, 1, 3, 1), "scaling(2, 2, 2)")

SphereB == ShapeOf("B", Material(0, 1, 4, 1), "translation(0, 0, -0.25)")

SphereC == ShapeOf("C", Material(0, 1, 5, 1), "translation(0, 0, 0.25)")

\* Its intersections, t in quarters: 2, 2.75, 3.25, 4.75, 5.25, 6.
ExampleXs ==
    <<intersection(8, SphereA), intersection(11, SphereB),
      intersection(13, SphereC), intersection(19, SphereB),
      intersection(21, SphereC), intersection(24, SphereA)>>

\* What Group::wrap hands out for two glass spheres of one group, the
\* children at translation(0, 0, -0.25) and translation(0, 0, 0.25): both
\* wrappers carry the group's inverse transform, and material() is the
\* child's, the same glass of index 1.5 for both.
TwinA == ShapeOf("s1", Material(0, 1, 3, 1), "group")

TwinB == ShapeOf("s2", Material(0, 1, 3, 1), "group")

\* Their intersections with the ray from (0, 0, -4) along z, t in quarters:
\* 2.75 and 4.75 for the first sphere, 3.25 and 5.25 for the second.
TwinXs ==
    <<intersection(11, TwinA), intersection(13, TwinB),
      intersection(19, TwinA), intersection(21, TwinB)>>

IsSortedByT(xs) == \A k \in 1..(Len(xs) - 1) : xs[k].t <= xs[k + 1].t

PrepLists ==
    {xs \in ListsUpTo({intersection(t, o) :
                          t \in 1..MaxPrepT, o \in {SphereA, SphereB, SphereC}},
                      MaxPrepXs) : xs # <<>> /\ IsSortedByT(xs)}
    \cup {ExampleXs, TwinXs}

\* xs[i].prepare_computations(&r, &xs)
PrepCall(i) ==
    /\ i \in 1..Len(world.view[root.ray].xs)
    /\ LET xs == world.view[root.ray].xs
       IN  probe' = [fn |-> "prepare_computations", xs |-> xs, i |-> i,
                     out |-> prepare_computations(xs[i], world.view[root.ray],
                                                  xs)]
    /\ UNCHANGED notProbe

InitPrep ==
    /\ \E xs \in PrepLists :
          world = [lights |-> 0, view |-> [r \in Rays |-> View(r, xs, 0)]]
    /\ root = [fn |-> "none", ray |-> "r1", remaining |-> 0]
    /\ stack = <<>>
    /\ ret = NoRet
    /\ RenderIdle
    /\ ProbeIdle
    /\ GroupIdle

NextPrep == \E i \in 1..Len(ExampleXs) : PrepCall(i)

SpecPrep == InitPrep /\ [][NextPrep]_vars

InitGroup == GroupStart /\ RenderIdle /\ TraceIdle /\ ProbeIdle

SpecGroup == InitGroup /\ [][NextGroup]_vars

SpecNest == InitGroup /\ [][NextNest]_vars

InitWorldXs ==
    /\ \E n \in 0..MaxObjects :
          \E objects \in [1..n -> WorldObjects], r \in WorldRays :
              probe = [fn |-> "intersects", called |-> FALSE, objects |-> objects,
                       ray |-> r,
                       out |-> [panic |-> FALSE, per |-> <<>>, xs |-> <<>>]]
    /\ RenderIdle
    /\ TraceIdle
    /\ GroupIdle

NextWorldXs == WorldIntersectsCall

SpecWorldXs == InitWorldXs /\ [][NextWorldXs]_vars

InitRender == RenderStart /\ TraceIdle /\ ProbeIdle /\ GroupIdle

NextRender ==
    \/ \E w \in Workers : WorkerReturn(w)
    \/ \E w \in Workers : WorkerCompute(w)
    \/ \E w \in Workers : WorkerSend(w)
    \/ ConsumerRecv
    \/ ConsumerClose

SpecRender == InitRender /\ [][NextRender]_vars

(***************************************************************************)
(* Claims about the rendering driver (checked under SpecRender)            *)
(***************************************************************************)
AllWorkersDone == \A w \in Workers : wpc[w] = "done"

\* The indices worker w has gone through completely (computed and sent).
Completed(w) == ranges[w].lo .. (wi[w] - 1)

\* C1: with the index space split into disjoint covering ranges, one per
\* worker, and the receiver kept open, every pixel is computed and sent
\* exactly once in every interleaving: never twice on the way, index i as
\* pixel (i mod hsize, i div hsize), and none missing once all have returned.
C1_EachPixelExactlyOnce ==
    /\ \A p \in Pixels(cam) : computed[p] <= 1 /\ sent[p] <= 1
    /\ rxOpen =>
          \A w \in Workers : \A i \in Completed(w) :
              /\ computed[<<i % cam.hsize, i \div cam.hsize>>] = 1
              /\ sent[<<i % cam.hsize, i \div cam.hsize>>] = 1
    /\ (rxOpen /\ AllWorkersDone) =>
          \A p \in Pixels(cam) : computed[p] = 1 /\ sent[p] = 1

C1_Witness ==
    /\ rxOpen
    /\ AllWorkersDone
    /\ cam.hsize > 1 /\ cam.vsize > 1
    /\ \A w \in Workers : ranges[w].lo < ranges[w].hi
    /\ \A p \in Pixels(cam) : sent[p] = 1

\* C2: once the receiver is dropped a worker stops at its first failed send:
\* the step that fails ends the loop (the worker is done, having queued,
\* computed and advanced nothing), a worker that is done stays done, the send
\* step can always be taken (it never blocks), and no later pixel of the
\* worker's range is ever computed or sent.
C2_StopsAtFirstFailedSend ==
    /\ [](\A w \in Workers :
            /\ wpc[w] = "send" => ENABLED WorkerSend(w)
            /\ (wpc[w] = "done" /\ wi[w] < ranges[w].hi) =>
                  /\ ~rxOpen
                  /\ sent[PixelOf(cam, wi[w])] = 0
                  /\ \A j \in (wi[w] + 1)..(ranges[w].hi - 1) :
                        /\ computed[PixelOf(cam, j)] = 0
                        /\ sent[PixelOf(cam, j)] = 0)
    /\ [][\A w \in Workers :
            /\ (~rxOpen /\ wpc[w] = "send" /\ wpc'[w] # "send") =>
                  /\ wpc'[w] = "done"
                  /\ wi'[w] = wi[w]
                  /\ chan' = chan /\ sent' = sent /\ computed' = computed
            /\ wpc[w] = "done" => (wpc'[w] = "done" /\ wi'[w] = wi[w])]_vars

C2_Witness ==
    /\ ~rxOpen
    /\ \E w \in Workers :
          /\ wpc[w] = "done"
          /\ wi[w] + 1 < ranges[w].hi
          /\ computed[PixelOf(cam, wi[w])] = 1
          /\ sent[PixelOf(cam, wi[w])] = 0

\* C3: once every worker has returned and the consumer has drained the
\* channel, the consumer's canvas equals, pixel for pixel, the canvas of the
\* synchronous render of the same camera and world, whatever the partition,
\* the interleaving and the arrival order.
C3_AsyncEqualsSync ==
    (rxOpen /\ AllWorkersDone /\ chan = <<>>) =>
        /\ canvas = render(cam)
        /\ \A p \in Pixels(cam) :
              pixel_at(canvas, p[1], p[2]) = PixelColor(p[1], p[2])

C3_Witness ==
    /\ rxOpen /\ AllWorkersDone /\ chan = <<>>
    /\ cam.hsize > 1 /\ cam.vsize > 1
    /\ \A w \in Workers : ranges[w].lo < ranges[w].hi
    /\ canvas = render(cam)
    /\ canvas.pixels[Len(canvas.pixels)] # Black

(***************************************************************************)
(* Claims about the recursive shading (checked under SpecTrace and         *)
(* SpecTraceFair)                                                          *)
(***************************************************************************)
TraceDone == stack = <<>>

\* The number of color_at calls that are active, one inside the other.
ColorAtDepth ==
    Cardinality({k \in 1..Len(stack) : stack[k].fn = "color_at"})

\* Every color_at frame but the outermost call was made by reflected_color or
\* refracted_color, with the caller's remaining - 1, the caller's remaining
\* being at least 1.
NestedCallsDecrease ==
    \A k \in 2..Len(stack) :
        stack[k].fn = "color_at" =>
            /\ stack[k - 1].fn \in {"reflected_color", "refracted_color"}
            /\ stack[k - 1].remaining >= 1
            /\ stack[k].remaining = stack[k - 1].remaining - 1

\* C4: color_at(ray, remaining) terminates for every scene and remaining >= 0
\* (two facing mirrors included); every nested color_at call gets remaining - 1,
\* none is made at remaining 0, and at most remaining + 1 color_at calls are
\* nested (7 for MAX_REFLECTIONS).
C4_TerminatesWithinDepth ==
    /\ <>TraceDone
    /\ [](/\ NestedCallsDecrease
          /\ ColorAtDepth <= root.remaining + 1
          /\ \A k \in 1..Len(stack) : stack[k].remaining >= 0)

FacingMirrors == \A r \in Rays : world.view[r] = Crossing(r, Mirror)

C4_Witness ==
    /\ FacingMirrors
    /\ root = [fn |-> "color_at", ray |-> "r1", remaining |-> MAX_REFLECTIONS]
    /\ ColorAtDepth = MAX_REFLECTIONS + 1

\* C5: reflected_color returns black at once, tracing no ray, when
\* remaining < 1 or the material's reflective is 0; otherwise it calls
\* color_at on the reflection ray with remaining - 1 and returns that colour
\* times reflective.
C5_ReflectedColor ==
    [][/\ Running("reflected_color", "entry") =>
            IF Top.remaining < 1 \/ Top.comps.object.material.reflective = 0
            THEN /\ stack' = Pop
                 /\ ret' = [set |-> TRUE, val |-> Black]
            ELSE /\ Len(stack') = Len(stack) + 1
                 /\ SubSeq(stack', 1, Len(stack) - 1) = Pop
                 /\ stack'[Len(stack)].fn = "reflected_color"
                 /\ stack'[Len(stack')] =
                        ColorAtFrame(Top.comps.reflect_ray, Top.remaining - 1)
       /\ Running("reflected_color", "wait") =>
            /\ ret.set
            /\ stack' = Pop
            /\ ret' = [set |-> TRUE,
                       val |-> ret.val * Top.comps.object.material.reflective]
      ]_vars

\* reflected_color has just returned a colour that is not black to shade_hit,
\* for a material whose reflective is neither 0 nor 1.
C5_Witness ==
    /\ Running("shade_hit", "refl")
    /\ ret.set
    /\ ret.val > Black
    /\ Top.comps.object.material.reflective > 1

\* C6: refracted_color returns black at once, tracing no ray, when
\* remaining == 0, the material's transparency is 0 or the hit is under total
\* internal reflection; otherwise it calls color_at on the refracted ray with
\* remaining - 1 and returns that colour times transparency.
C6_RefractedColor ==
    [][/\ Running("refracted_color", "entry") =>
            IF \/ Top.remaining = 0
               \/ Top.comps.object.material.transparency = 0
               \/ Top.comps.n1 * Top.comps.n1 * Top.comps.sin2
                      > SinDen * Top.comps.n2 * Top.comps.n2
            THEN /\ stack' = Pop
                 /\ ret' = [set |-> TRUE, val |-> Black]
            ELSE /\ Len(stack') = Len(stack) + 1
                 /\ SubSeq(stack', 1, Len(stack) - 1) = Pop
                 /\ stack'[Len(stack)].fn = "refracted_color"
                 /\ stack'[Len(stack')] =
                        ColorAtFrame(Top.comps.refract_ray, Top.remaining - 1)
       /\ Running("refracted_color", "wait") =>
            /\ ret.set
            /\ stack' = Pop
            /\ ret' = [set |-> TRUE,
                       val |-> ret.val * Top.comps.object.material.transparency]
      ]_vars

\* refracted_color has just returned black to shade_hit for a transparent
\* material with remaining left: the hit is under total internal reflection.
C6_Witness ==
    /\ Running("shade_hit", "refr")
    /\ ret.set
    /\ ret.val = Black
    /\ Top.remaining > 0
    /\ Top.comps.object.material.transparency > 0
    /\ Top.comps.n1 > Top.comps.n2
    /\ Top.comps.n1 * Top.comps.n1 * Top.comps.sin2
           > SinDen * Top.comps.n2 * Top.comps.n2

(***************************************************************************)
(* Claims about hit (checked under SpecHit)                                *)
(***************************************************************************)
\* No intersection of the list has t >= 0 (the list may be empty).
NothingAhead(xs) == \A k \in 1..Len(xs) : xs[k].t < 0

\* out is what hit should give for xs: None exactly when nothing is ahead,
\* else an entry of xs with the least t among those with t >= 0.
IsNearestAhead(xs, out) ==
    /\ out = <<>> <=> NothingAhead(xs)
    /\ out # <<>> =>
          /\ Len(out) = 1
          /\ \E k \in 1..Len(xs) : xs[k] = out[1]
          /\ out[1].t >= 0
          /\ \A k \in 1..Len(xs) : xs[k].t >= 0 => out[1].t <= xs[k].t

ColorAtFinished == root.fn = "color_at" /\ stack = <<>> /\ ret.set

\* C7 as stated: ... and color_at returns black exactly in the None case.
C7_BlackExactlyWhenNoHit ==
    /\ probe.fn = "hit" => IsNearestAhead(probe.xs, probe.out)
    /\ ColorAtFinished =>
          (ret.val = Black <=> NothingAhead(world.view[root.ray].xs))

\* C7, amended: hit(xs) gives, for a list in any order, an intersection with
\* the least t among those with t >= 0 (t = 0 counts), and None exactly when
\* xs is empty or every t is negative; color_at returns black whenever hit
\* gives None (a hit may be shaded black as well).
C7_HitNearestAhead ==
    /\ probe.fn = "hit" => IsNearestAhead(probe.xs, probe.out)
    /\ (ColorAtFinished /\ NothingAhead(world.view[root.ray].xs)) =>
          ret.val = Black

\* hit has picked an intersection at t = 0 out of a list that is not sorted
\* and holds a negative and a positive t as well.
C7_Witness ==
    /\ probe.fn = "hit"
    /\ probe.out # <<>>
    /\ probe.out[1].t = 0
    /\ Len(probe.xs) = 3
    /\ probe.xs[1].t > 0
    /\ probe.xs[2].t < 0
    /\ probe.xs[3].t = 0

(***************************************************************************)
(* Claims about prepare_computations (checked under SpecPrep)              *)
(***************************************************************************)
\* The entries among the first m of xs whose object has been entered and not
\* left: the object occurs an odd number of times among them, and the entry
\* is its last.
Inside(xs, m) ==
    {j \in 1..m :
        /\ Cardinality({k \in 1..m : ShapeEq(xs[k].object, xs[j].object)}) % 2
               = 1
        /\ \A k \in (j + 1)..m : ~ShapeEq(xs[k].object, xs[j].object)}

\* The refractive index of the object entered last, 1.0 outside every object.
IndexInside(xs, m) ==
    IF Inside(xs, m) = {} THEN Vacuum
    ELSE LET j == CHOOSE j \in Inside(xs, m) : \A k \in Inside(xs, m) : k <= j
         IN  xs[j].object.material.refractive_index

\* The entry the walk takes for the hit: the first one equal to it.
OwnEntry(xs, i) == CHOOSE k \in 1..i : /\ IsecEq(xs[k], xs[i])
                                       /\ \A j \in 1..(k - 1) : ~IsecEq(xs[j], xs[i])

\* (n1, n2) at the six intersections of the three spheres, in half units.
ExamplePairs == <<<<2, 3>>, <<3, 4>>, <<4, 5>>, <<5, 5>>, <<5, 3>>, <<3, 2>>>>

\* C8: n1 is the refractive index of the last object entered and not yet left
\* just before the hit's entry is processed, n2 the one just after, each 1.0
\* when there is none; for the spheres A(1.5), B(2.0), C(2.5) crossed as
\* A, B, C, B, C, A the pairs are (1, 1.5), (1.5, 2), (2, 2.5), (2.5, 2.5),
\* (2.5, 1.5), (1.5, 1).
C8_RefractiveIndices ==
    probe.fn = "prepare_computations" =>
        /\ probe.out.n1 = IndexInside(probe.xs, OwnEntry(probe.xs, probe.i) - 1)
        /\ probe.out.n2 = IndexInside(probe.xs, OwnEntry(probe.xs, probe.i))
        /\ probe.xs = ExampleXs =>
              <<probe.out.n1, probe.out.n2>> = ExamplePairs[probe.i]

C8_Witness ==
    /\ probe.fn = "prepare_computations"
    /\ probe.xs = ExampleXs
    /\ probe.i = 4
    /\ probe.out.n1 = 5
    /\ probe.out.n2 = 5


(***************************************************************************)
(* Claims about Group::local_intersects (checked under SpecGroup)          *)
(***************************************************************************)
\* The call of local_intersects has ended, by a return or by a panic.
GroupEnded == gpc \in {"done", "panicked"}

\* C9: a Group with no children returns an empty list of intersections for
\* every ray and every transform of the group: the call returns (it does not
\* panic), the list is empty, and no child's intersects was called.
C9_EmptyGroupNoIntersections ==
    (GroupEnded /\ grp.children = <<>>) =>
        (gpc = "done" /\ gxs = <<>> /\ gvisited = <<>>)

\* An empty group under a transform has returned for a ray on which the test
\* of its bounds (the single point at the origin) would meet a NaN.
C9_Witness ==
    /\ gpc = "done"
    /\ grp.children = <<>>
    /\ grp.invtransform # identity_matrix
    /\ BoundsIntersects(grp.bounds, gray).panic

\* The test of the group's bounds against the local ray has answered false.
BoundsSayNo ==
    LET b == BoundsIntersects(grp.bounds, gray) IN ~b.panic /\ ~b.value

\* C10: when bounds.intersects(local ray) is false, local_intersects returns
\* no intersections and calls intersects on none of the children, also for a
\* ray on which a child would report intersections.
C10_PrunedGroupVisitsNoChild ==
    (gpc \in {"children", "done", "panicked"} /\ BoundsSayNo) =>
        (gpc = "done" /\ gxs = <<>> /\ gvisited = <<>>)

\* A group of two cubes has returned on a ray its bounds reject, and one of
\* its cubes reports intersections for that ray.
C10_Witness ==
    /\ gpc = "done"
    /\ Len(grp.children) = 2
    /\ BoundsSayNo
    /\ gxs = <<>>
    /\ \E k \in 1..2 : ShapeIntersects(grp.children[k], gray) # <<>>


(***************************************************************************)
(* Claims about a Group's bounds (checked under SpecGroup)                 *)
(***************************************************************************)
\* The box of a child in the group's frame, in extended reals: the child's
\* transform is a translation, so each corner coordinate moves by its offset
\* and an infinite coordinate stays infinite.
ChildBox(c) ==
    LET o == inverse(c.invtransform).a
        Shift(x, d) == IF x.k = "fin" THEN Fin(x.n + d * x.d, x.d) ELSE x
    IN  bound([k \in 1..3 |-> Shift(c.bounds.min[k], o[k])],
              [k \in 1..3 |-> Shift(c.bounds.max[k], o[k])])

\* The least and the greatest of a set of extended reals.
Least(S) == CHOOSE x \in S : \A y \in S : ~QLt(y, x)

Greatest(S) == CHOOSE x \in S : \A y \in S : ~QLt(x, y)

\* The union of the children's boxes: min of the mins, max of the maxes.
UnionOfChildren(cs) ==
    bound([k \in 1..3 |-> Least({ChildBox(cs[i]).min[k] : i \in 1..Len(cs)})],
          [k \in 1..3 |-> Greatest({ChildBox(cs[i]).max[k] : i \in 1..Len(cs)})])

AllCubes == \A i \in 1..Len(grp.children) : grp.children[i].kind = "cube"

\* C11 as stated: after any sequence of add_child calls the group's
\* local_bounds is the union of the current children's local_bounds taken to
\* the group's frame by each child's transform (so never the placeholder of
\* the empty group once a child exists).
C11_BoundsAreUnionOfChildren ==
    grp.children # <<>> => grp.bounds = UnionOfChildren(grp.children)

\* C11, what the code does keep: the same, for children whose local_bounds
\* are finite (cubes).
C11_BoundsAreUnionOfFiniteChildren ==
    (grp.children # <<>> /\ AllCubes) =>
        grp.bounds = UnionOfChildren(grp.children)

\* A group whose only child is a plane, as plane() makes it, holds NaN in
\* every coordinate of its bounds.
C11_Witness ==
    /\ Len(grp.children) = 1
    /\ grp.children[1].kind = "plane"
    /\ grp.children[1].invtransform = identity_matrix
    /\ \A k \in 1..3 : IsNaN(grp.bounds.min[k]) /\ IsNaN(grp.bounds.max[k])

\* The call has passed the test of the bounds, whatever its outcome.
PastBoundsTest == gpc \in {"children", "done", "panicked"} /\ grp.children # <<>>

\* Some child reports, for the local ray, an intersection ahead (t >= 0).
SomeChildHit ==
    \E i \in 1..Len(grp.children) :
        LET xs == ShapeIntersects(grp.children[i], gray)
        IN  \E j \in 1..Len(xs) : QGe0(xs[j].t)

\* C12 as stated: pruning never culls a true hit; whenever some child's own
\* intersection test reports a hit for the ray, the test of the group's
\* bounds, when it gives an answer at all, passes.
C12_PruningNeverCullsAHit ==
    (PastBoundsTest /\ SomeChildHit /\ gpc # "panicked") =>
        BoundsIntersects(grp.bounds, gray).value

\* A group of a cube and a plane has returned nothing for a ray that the
\* plane reports a hit for: the bounds, the cube's alone, rejected the ray.
C12_Witness ==
    /\ gpc = "done"
    /\ gxs = <<>>
    /\ BoundsSayNo
    /\ \E i \in 1..Len(grp.children) :
          /\ grp.children[i].kind = "plane"
          /\ LET xs == ShapeIntersects(grp.children[i], gray)
             IN  xs # <<>> /\ QGe0(xs[1].t)

\* C13 as stated: no ray makes Bounds.intersects or Group.local_intersects
\* panic.
C13_NeverPanics == gpc # "panicked"

\* A group of cubes only has panicked on a ray with a zero direction
\* component whose origin lies on a face of the group's box (0 / 0).
C13_Witness ==
    /\ gpc = "panicked"
    /\ grp.children # <<>>
    /\ AllCubes
    /\ \E k \in 1..3 :
          /\ gray.direction[k] = 0
          /\ (QSubInt(grp.bounds.min[k], gray.origin[k]) = QInt(0)
              \/ QSubInt(grp.bounds.max[k], gray.origin[k]) = QInt(0))


(***************************************************************************)
(* Claims about shade_hit (checked under SpecTrace)                        *)
(***************************************************************************)
\* The innermost call after the step.
TopNext == stack'[Len(stack')]

\* The factors of the reflected and of the refracted colour: schlick and
\* 1 - schlick exactly when the material is both reflective and transparent.
ReflFactor(c) ==
    IF c.object.material.reflective > 0 /\ c.object.material.transparency > 0
    THEN schlick(c) ELSE 1

RefrFactor(c) ==
    IF c.object.material.reflective > 0 /\ c.object.material.transparency > 0
    THEN 1 - schlick(c) ELSE 1

\* C14: shade_hit returns the sum, over the light sources, of
\* lighting + reflected_color * reflFactor + refracted_color * refrFactor,
\* the factors being schlick and 1 - schlick exactly when the material is
\* both reflective and transparent and 1 otherwise; with no light source it
\* returns black. Step by step: the sum starts at black; each light adds its
\* term, made of what reflected_color and refracted_color returned; the sum
\* is returned after the last light and not before.
C14_ShadeHitSumsOverLights ==
    [][/\ (Running("color_at", "entry") /\ Len(stack') > Len(stack)) =>
              (TopNext.fn = "shade_hit" /\ TopNext.acc = Black /\ TopNext.k = 0)
       /\ (Running("shade_hit", "refl") /\ stack' # stack) =>
              stack'[Len(stack)].reflected = ret.val
       /\ (Running("shade_hit", "refr") /\ stack' # stack) =>
              /\ TopNext.k = Top.k + 1
              /\ TopNext.acc = Top.acc + lighting(Top.comps)
                                 + Top.reflected * ReflFactor(Top.comps)
                                 + ret.val * RefrFactor(Top.comps)
       /\ (Running("shade_hit", "light") /\ Len(stack') < Len(stack)) =>
              /\ Top.k = world.lights
              /\ ret'.val = Top.acc
              /\ world.lights = 0 => ret'.val = Black
       /\ (Running("shade_hit", "light") /\ Len(stack') > Len(stack)) =>
              Top.k < world.lights
      ]_vars

\* shade_hit is about to return, in a world of two lights, a sum to which the
\* reflected or the refracted colour has contributed.
C14_Witness ==
    /\ Running("shade_hit", "light")
    /\ world.lights = 2
    /\ Top.k = 2
    /\ Top.acc > 2 * lighting(Top.comps)


(***************************************************************************)
(* Claims about is_shadowed (checked under SpecShadow)                     *)
(***************************************************************************)
\* Entry i of xs is a nearest one among those ahead of the point (t >= 0).
NearestAhead(xs, i) ==
    /\ xs[i].t >= 0
    /\ \A j \in 1..Len(xs) : xs[j].t >= 0 => xs[i].t <= xs[j].t

\* C15: is_shadowed is true exactly when the ray from the point towards the
\* light has a hit (least t >= 0) with t strictly less than the distance to
\* the light; if every object is behind the point (t < 0) or not nearer than
\* the light (t >= distance) there is no shadow.
C15_ShadowedIffHitBeforeLight ==
    probe.fn = "is_shadowed" =>
        /\ probe.out <=>
               \E i \in 1..Len(probe.xs) :
                   NearestAhead(probe.xs, i) /\ probe.xs[i].t < probe.distance
        /\ (\A i \in 1..Len(probe.xs) :
               probe.xs[i].t < 0 \/ probe.xs[i].t >= probe.distance)
             => ~probe.out

\* is_shadowed has answered false for a list with an object behind the
\* point, one exactly at the light and one beyond it.
C15_Witness ==
    /\ probe.fn = "is_shadowed"
    /\ ~probe.out
    /\ Len(probe.xs) = 3
    /\ \E i \in 1..3 : probe.xs[i].t < 0
    /\ \E i \in 1..3 : probe.xs[i].t = probe.distance
    /\ \E i \in 1..3 : probe.xs[i].t > probe.distance


(***************************************************************************)
(* Claims about Material::lighting (checked under SpecLighting)            *)
(***************************************************************************)
LightingDone == probe.fn = "lighting" /\ probe.called

\* The light is on the far side of the surface.
LightBehind == Dot(probe.lightv, probe.normal) < 0

\* C16 as stated: lighting always includes the ambient term, and whenever
\* in_shadow is true or the light is on the far side of the surface
\* (dot(lightv, normal) < 0) the diffuse and the specular term are both zero
\* and the result is the ambient term.
C16_AmbientOnlyWhenShadowedOrBehind ==
    LightingDone =>
        /\ probe.res.ambient = DefaultMaterial.ambient
        /\ probe.res.out = probe.res.ambient + probe.res.diffuse
                            + probe.res.specular
        /\ (probe.in_shadow \/ LightBehind) =>
              /\ probe.res.diffuse = Black
              /\ probe.res.specular = Black
              /\ probe.res.out = probe.res.ambient

\* C16, what the code does keep: the ambient term is always included; in
\* shadow the result is the ambient term; with the light behind the surface
\* the diffuse term is zero (the specular term need not be).
C16_AmbientOnlyWhenShadowed ==
    LightingDone =>
        /\ probe.res.ambient = DefaultMaterial.ambient
        /\ probe.res.out = probe.res.ambient + probe.res.diffuse
                            + probe.res.specular
        /\ probe.in_shadow => probe.res.out = probe.res.ambient
        /\ LightBehind => probe.res.diffuse = Black

\* Not in shadow, the light behind a surface whose normal faces the eye
\* (dot(eye, normal) >= 0, as prepare_computations arranges), and a specular
\* term above zero.
C16_Witness ==
    /\ LightingDone
    /\ ~probe.in_shadow
    /\ LightBehind
    /\ Dot(probe.eye, probe.normal) >= 0
    /\ probe.res.specular > Black
    /\ probe.res.out > probe.res.ambient


(***************************************************************************)
(* Claims about the owner of the pixel buffer (checked under SpecRender)   *)
(***************************************************************************)
\* How many triples for pixel p are queued in the channel.
Queued(p) == Cardinality({i \in 1..Len(chan) : <<chan[i][1], chan[i][2]>> = p})

\* How many times pixel p has been written: every pixel's colour differs
\* from black, and no pixel is sent twice (C1).
Written(p) == IF pixel_at(canvas, p[1], p[2]) = Black THEN 0 ELSE 1

\* C17: the canvas is written only by the consumer that receives from the
\* channel, never by a render worker; and while the consumer keeps draining
\* (the receiver is not dropped) every triple sent successfully is either
\* still queued or written to the canvas exactly once, at its own (x, y)
\* with its own colour: none is lost.
C17_SingleWriterNoneLost ==
    /\ [](rxOpen =>
            \A p \in Pixels(cam) :
                /\ sent[p] = Queued(p) + Written(p)
                /\ pixel_at(canvas, p[1], p[2]) \in {Black, PixelColor(p[1], p[2])})
    /\ [][/\ canvas' # canvas =>
               /\ rxOpen /\ chan # <<>> /\ chan' = Tail(chan)
               /\ canvas' = write_pixel(canvas, Head(chan)[1], Head(chan)[2],
                                        Head(chan)[3])
               /\ UNCHANGED <<wi, wpc, wcolor, computed, sent>>
          /\ (rxOpen' /\ chan # <<>> /\ chan' = Tail(chan)) => canvas' # canvas
         ]_vars

\* Mid render: the consumer has written a pixel of one worker while a triple
\* of another pixel is queued and a worker is about to send a third.
C17_Witness ==
    /\ rxOpen
    /\ Len(chan) = 1
    /\ \E p \in Pixels(cam) : Written(p) = 1 /\ Queued(p) = 0
    /\ \E w \in Workers : wpc[w] = "send" /\ sent[PixelOf(cam, wi[w])] = 0


(***************************************************************************)
(* Claims about Matrix::inverse (checked under SpecMatrix)                 *)
(***************************************************************************)
MatrixDone == probe.fn = "inverse" /\ probe.called

\* The three equalities of the claim, for the matrices a and b of the call.
InverseLaws ==
    /\ MatrixEq(probe.res.a_inv, Identity4)
    /\ MatrixEq(probe.res.inv_ab, probe.res.invb_inva)
    /\ MatrixEq(probe.res.ab_invb, probe.a)

\* The determinant and every cofactor of m are finite: nothing overflowed.
ComputedInRange(m) ==
    /\ Finite(determinant(m))
    /\ \A i, j \in 1..4 : Finite(cofactor(m, i, j))

\* C18 as stated: for every invertible M (determinant != 0),
\* M * M.inverse() is the identity within the tolerance, and for invertible
\* M and N (M * N).inverse() is N.inverse() * M.inverse(), so that
\* (M * N) * N.inverse() is M.
C18_InverseLaws ==
    (MatrixDone /\ is_invertible(probe.a) /\ is_invertible(probe.b)) =>
        InverseLaws

\* C18, what the code does keep: the same, for matrices whose determinants
\* and cofactors, and those of their product, are computed within range.
C18_InverseLawsInRange ==
    (MatrixDone /\ is_invertible(probe.a) /\ is_invertible(probe.b)
       /\ ComputedInRange(probe.a) /\ ComputedInRange(probe.b)
       /\ ComputedInRange(MatMul(probe.a, probe.b))) =>
        InverseLaws

\* inverse has been applied to an invertible scaling whose exact inverse is
\* representable, and the result holds a NaN.
C18_Witness ==
    /\ MatrixDone
    /\ is_invertible(probe.a)
    /\ probe.b = Identity4
    /\ \A i, j \in 1..4 : Finite(probe.a[i][j])
    /\ \E i, j \in 1..4 : IsNaN(probe.res.inv[i][j])
    /\ ~MatrixEq(probe.res.a_inv, Identity4)

\* C19 as stated: inverse() of a matrix whose determinant is 0 fails or is
\* guarded; it does not return a matrix as if the inversion had succeeded.
C19_SingularInverseFails ==
    (MatrixDone /\ ~is_invertible(probe.a)) => probe.res.panicked

\* inverse has returned, for the matrix with determinant 0, a matrix whose
\* entries are all NaN or infinite.
C19_Witness ==
    /\ MatrixDone
    /\ ~is_invertible(probe.a)
    /\ ~probe.res.panicked
    /\ \A i, j \in 1..4 : ~Finite(probe.res.inv[i][j])


(***************************************************************************)
(* Claims about the canvas (checked under SpecCanvas)                      *)
(***************************************************************************)
\* C20: canvas(width, height) holds width * height pixels, all black until
\* written; after any sequence of write_pixel(x, y, c) with x < width and
\* y < height, pixel_at(x, y) is the colour last written at (x, y), kept at
\* the row-major index width * y + x, and every pixel never written is
\* still black: a write changes no other pixel.
C20_CanvasKeepsWrites ==
    probe.fn = "canvas" =>
        /\ ~probe.cv.panicked
        /\ Len(probe.cv.pixels) = probe.cv.width * probe.cv.height
        /\ \A p \in InCanvas(probe.cv) :
              /\ pixel_at(probe.cv, p[1], p[2]) = probe.want[p]
              /\ probe.cv.pixels[probe.cv.width * p[2] + p[1] + 1] = probe.want[p]

\* On a 3 x 2 canvas (2, 0) and (1, 1) have been written and (0, 1), whose
\* index lies between theirs, is black.
C20_Witness ==
    /\ probe.fn = "canvas"
    /\ probe.cv.width = 3
    /\ probe.cv.height = 2
    /\ pixel_at(probe.cv, 2, 0) = 1
    /\ pixel_at(probe.cv, 1, 1) = 1
    /\ pixel_at(probe.cv, 0, 1) = Black
    /\ probe.want[<<0, 0>>] = Black


(***************************************************************************)
(* Claims about to_ppm (checked under SpecPpm)                             *)
(***************************************************************************)
\* The pieces of a text between the characters of seps (empty pieces
\* included).
SplitAt(text, seps) ==
    LET cuts == {k \in 1..Len(text) : text[k] \in seps}
        \* the position of the i-th cut; 0 and Len + 1 stand at the ends
        Cut(i) == IF i = 0 THEN 0
                  ELSE IF i > Cardinality(cuts) THEN Len(text) + 1
                  ELSE CHOOSE k \in cuts : Cardinality({q \in cuts : q < k}) = i - 1
    IN  [i \in 1..(Cardinality(cuts) + 1) |->
            SubSeq(text, Cut(i - 1) + 1, Cut(i) - 1)]

\* The lines of the pixel data: the text without its final newline, after
\* the three lines of the header.
PixelLines(text) ==
    LET ls == SplitAt(SubSeq(text, 1, Len(text) - 1), {"\n"})
    IN  SubSeq(ls, 4, Len(ls))

\* The number of values on the lines before line k.
RECURSIVE WordsBefore(_, _)
WordsBefore(ls, k) ==
    IF k = 1 THEN 0
    ELSE WordsBefore(ls, k - 1) + Len(SplitAt(ls[k - 1], {" "}))

\* The values the canvas holds, row by row, pixel by pixel, red, green, blue,
\* each as the decimal digits of its 0..255 value.
ExpectedWords(cv) ==
    Flatten([k \in 1..Len(cv.pixels) |->
               [j \in 1..3 |-> to_string(clip_range(cv.pixels[k][j], 0, 255))]])

\* C21: in the text of to_ppm no line is longer than 70 characters; the
\* lines of pixel data, cut at their spaces, are exactly the colour values
\* of the canvas in row order and pixel order red, green, blue (no value is
\* cut by a line break); and the first value of every canvas row starts a
\* line.
C21_PpmLines ==
    (probe.fn = "to_ppm" /\ probe.called) =>
        LET ls == PixelLines(probe.out)
        IN  /\ \A l \in 1..Len(SplitAt(probe.out, {"\n"})) :
                  Len(SplitAt(probe.out, {"\n"})[l]) <= 70
            /\ Flatten([l \in 1..Len(ls) |-> SplitAt(ls[l], {" "})])
                  = ExpectedWords(probe.cv)
            /\ \A r \in 0..(probe.cv.height - 1) :
                  \E l \in 1..Len(ls) :
                      WordsBefore(ls, l) = r * 3 * probe.cv.width

\* to_ppm has written a two-row canvas with one row of exactly 70
\* characters, kept on one line, and one row too long for a line, broken in
\* two.
C21_Witness ==
    /\ probe.fn = "to_ppm"
    /\ probe.called
    /\ probe.cv.height = 2
    /\ Len(PixelLines(probe.out)) = 3
    /\ \E l \in 1..3 : Len(PixelLines(probe.out)[l]) = 70


(***************************************************************************)
(* Claims about parse_obj (checked under SpecObj)                          *)
(***************************************************************************)
\* A vertex record: v and three numbers.
VertexRecord(line) ==
    /\ Len(line) = 4
    /\ line[1] = "v"
    /\ \A k \in 2..4 : parse_f64(line[k]).ok

\* A face record: f and at least three indices of vertices read so far.
FaceRecord(line, vertices) ==
    /\ Len(line) >= 4
    /\ line[1] = "f"
    /\ \A k \in 2..Len(line) :
          LET n == parse_usize(FirstField(line[k]))
          IN  n.ok /\ 1 <= n.v /\ n.v <= Len(vertices)

\* A group record: g and a name.
GroupRecord(line) == Len(line) = 2 /\ line[1] = "g" /\ line[2] # ""

\* The step has read one more line.
ReadsLine == probe.fn = "parse_obj" /\ probe'.nlines = probe.nlines + 1

\* The line read added nothing: the parser goes on, with the same vertices,
\* triangles and groups.
LineIgnored ==
    /\ ~probe'.panicked
    /\ probe'.parsed = probe.parsed
    /\ probe'.last_group = probe.last_group
    /\ probe'.last_name = probe.last_name

\* C22 as stated: a line that is not a well-formed vertex, face or group
\* record is ignored: parsing does not fail on it and it adds no vertex,
\* triangle or group.
C22_MalformedLinesIgnored ==
    [][(ReadsLine /\ ~VertexRecord(probe'.line)
          /\ ~FaceRecord(probe'.line, probe.parsed.vertices)
          /\ ~GroupRecord(probe'.line)) => LineIgnored]_vars

\* C22, what the code does keep: a line that starts neither with a number
\* (after any "v " at its start) nor with "f " nor with "g " is ignored.
C22_UnrecognizedLinesIgnored ==
    [][(ReadsLine
          /\ ~parse_f64(Trim(TrimStartMatches(probe'.line, "v"))[1]).ok
          /\ ~StartsWith(probe'.line, "f")
          /\ ~StartsWith(probe'.line, "g")) => LineIgnored]_vars

\* After a vertex was read, parse_obj has panicked on the vertex line with
\* two numbers.
C22_Witness ==
    /\ probe.fn = "parse_obj"
    /\ probe.panicked
    /\ Len(probe.parsed.vertices) = 1
    /\ probe.line = <<"v", "1", "2">>


(***************************************************************************)
(* Claims about the objects of a group's intersections (SpecNest)          *)
(***************************************************************************)
\* o is a synthetic group around one child, with g's inverse transform.
WrapperOf(o, g) ==
    /\ o.kind = "group"
    /\ Len(o.children) = 1
    /\ o.invtransform = g.invtransform

\* The number of groups from o down to the primitive it leads to.
RECURSIVE WrapDepth(_)
WrapDepth(o) == IF o.kind = "group" THEN 1 + WrapDepth(o.children[1]) ELSE 0

\* The primitive at the end of the chain of first children.
RECURSIVE PrimitiveOf(_)
PrimitiveOf(o) == IF o.kind = "group" THEN PrimitiveOf(o.children[1]) ELSE o

\* x is an intersection of child c of the group: a primitive's own, or an
\* inner group's, wrapped once by that group around one of its children.
ReportedBy(x, c) ==
    IF c.kind = "group"
    THEN /\ WrapperOf(x.object, c)
         /\ \E j \in 1..Len(c.children) : x.object.children[1] = c.children[j]
         /\ WrapDepth(x.object) = 1
    ELSE x.object = c

\* C23: every intersection a group has collected has as object a synthetic
\* group with one child and the group's inverse transform; the child is the
\* object one of the group's children reported at that t; the chain of
\* wrappers has one wrapper per enclosing group; material() of the object
\* is the material of the primitive hit; and intersecting never changes
\* the group or its children.
C23_HitsAreWrappedOnce ==
    /\ [](gpc \in {"children", "done"} =>
            \A k \in 1..Len(gxs) :
                /\ WrapperOf(gxs[k].object, grp)
                /\ \E j \in 1..Len(grp.children) :
                      LET c == grp.children[j]
                      IN  /\ \E x \in {ChildIntersects(c, gray).xs[i] :
                                         i \in 1..Len(ChildIntersects(c, gray).xs)} :
                                x.t = gxs[k].t /\ x.object = gxs[k].object.children[1]
                          /\ ReportedBy([t |-> gxs[k].t,
                                         object |-> gxs[k].object.children[1]], c)
                          /\ WrapDepth(gxs[k].object)
                                = (IF c.kind = "group" THEN 2 ELSE 1)
                /\ ShapeMaterial(gxs[k].object) = PrimitiveOf(gxs[k].object).material)
    /\ [][gpc # "build" => grp' = grp]_vars

\* A moved group holding a cube and the inner group has returned hits of
\* both: chains of one and of two wrappers, with different materials.
C23_Witness ==
    /\ gpc = "done"
    /\ grp.invtransform # identity_matrix
    /\ \E k \in 1..Len(gxs) : WrapDepth(gxs[k].object) = 1
    /\ \E k \in 1..Len(gxs) :
          /\ WrapDepth(gxs[k].object) = 2
          /\ ShapeMaterial(gxs[k].object) = Material(1, 0, 2, 1)


(***************************************************************************)
(* Claims about the lists of intersections (checked under SpecWorldXs)     *)
(***************************************************************************)
WorldXsDone == probe.fn = "intersects" /\ probe.called /\ ~probe.out.panic

\* t does not decrease along the list.
SortedByQ(xs) == \A i \in 1..(Len(xs) - 1) : QLe(xs[i].t, xs[i + 1].t)

\* How often x occurs in xs.
Occurrences(x, xs) == Cardinality({i \in 1..Len(xs) : xs[i] = x})

\* Every intersection of every list of parts occurs in xs exactly as often as
\* in the parts together, and xs holds nothing else.
HoldsExactly(xs, parts) ==
    /\ Len(xs) = Len(Flatten(parts))
    /\ \A i \in 1..Len(Flatten(parts)) :
          Occurrences(Flatten(parts)[i], xs)
              = Occurrences(Flatten(parts)[i], Flatten(parts))

\* What the children of group g report for the ray r given to g, each
\* intersection with its object wrapped by g.
ReportedByChildren(g, r) ==
    [j \in 1..Len(g.children) |->
        LET xs == ChildIntersects(g.children[j],
                                  RayTransform(r, g.invtransform)).xs
        IN  [i \in 1..Len(xs) |-> intersection(xs[i].t, Wrap(g, xs[i].object))]]

\* The list of the world holds exactly what its objects returned, sorted.
WorldListComplete ==
    /\ SortedByQ(probe.out.xs)
    /\ HoldsExactly(probe.out.xs,
                    [k \in 1..Len(probe.objects) |-> probe.out.per[k].xs])

\* The list of the k-th object, a group, holds exactly what its children
\* report, sorted.
GroupListComplete(k) ==
    /\ SortedByQ(probe.out.per[k].xs)
    /\ HoldsExactly(probe.out.per[k].xs,
                    ReportedByChildren(probe.objects[k], probe.ray))

\* The group's bounds accept the ray given to the group.
BoundsAccept(g, r) ==
    BoundsIntersects(g.bounds, RayTransform(r, g.invtransform)).value

\* C24 as stated: the lists returned by World.intersects and by
\* Group.local_intersects are sorted by t, non-decreasing, and hold every
\* intersection reported by every object (child) exactly once.
C24_ListsSortedAndComplete ==
    WorldXsDone =>
        /\ WorldListComplete
        /\ \A k \in 1..Len(probe.objects) :
              probe.objects[k].kind = "group" => GroupListComplete(k)

\* C24, what the code does keep: the same for World.intersects, and for
\* Group.local_intersects when the test of the group's bounds accepts the
\* ray.
C24_ListsSortedAndCompleteUnlessPruned ==
    WorldXsDone =>
        /\ WorldListComplete
        /\ \A k \in 1..Len(probe.objects) :
              (probe.objects[k].kind = "group"
                 /\ BoundsAccept(probe.objects[k], probe.ray))
                  => GroupListComplete(k)

\* The group of a cube and a plane has returned nothing for a ray that meets
\* its plane ahead of the origin.
C24_Witness ==
    /\ WorldXsDone
    /\ \E k \in 1..Len(probe.objects) :
          /\ probe.objects[k] = PlaneGroup
          /\ probe.out.per[k].xs = <<>>
          /\ \E i \in 1..Len(ReportedByChildren(PlaneGroup, probe.ray)[2]) :
                QGe0(ReportedByChildren(PlaneGroup, probe.ray)[2][i].t)


(***************************************************************************)
(* Claims about schlick (checked under SpecSchlick)                        *)
(***************************************************************************)
\* C25: for every Comps on which is_internal_reflection() is true,
\* (n1 / n2)^2 * (1 - cos^2) > 1, schlick() returns exactly 1.
C25_SchlickIsOneUnderTotalReflection ==
    (probe.fn = "schlick" /\ probe.called /\ probe.out.internal) =>
        probe.out.schlick = 1

\* Both functions have been called on a hit leaving glass (1.5) for air at
\* a grazing angle, where the reflection is total; schlick returned 1.
C25_Witness ==
    /\ probe.fn = "schlick"
    /\ probe.called
    /\ probe.comps.n1 = 3
    /\ probe.comps.n2 = 2
    /\ probe.out.internal
    /\ probe.out.schlick = 1


(***************************************************************************)
(* Claims about the remaining counter (checked under SpecTrace)            *)
(***************************************************************************)
\* C26: in every call of shade_hit, reflected_color, refracted_color and
\* color_at made under color_at(ray, r), 0 <= r <= MAX_REFLECTIONS, the
\* remaining argument is within 0..r: it is never negative, so the i8 never
\* goes below its range.
C26_RemainingWithinRange ==
    (root.fn = "color_at" /\ root.remaining \in 0..MAX_REFLECTIONS) =>
        \A k \in 1..Len(stack) :
            /\ stack[k].remaining >= 0
            /\ stack[k].remaining <= root.remaining
            /\ stack[k].remaining >= -128

\* Under a color_at that started above 0, refracted_color is entered with
\* remaining 0 for a transparent material: the call its == 0 test stops.
C26_Witness ==
    /\ root.fn = "color_at"
    /\ root.remaining >= 1
    /\ Running("refracted_color", "entry")
    /\ Top.remaining = 0
    /\ Top.comps.object.material.transparency > 0
    /\ ~is_internal_reflection(Top.comps)

(***************************************************************************)
(* Claims about containers of equal shapes (checked under SpecPrep)        *)
(***************************************************************************)
\* The entries among the first m of xs whose shape, told apart from every
\* other shape, has been entered and not left.
InsidePerShape(xs, m) ==
    {j \in 1..m :
        /\ Cardinality({k \in 1..m : xs[k].object.id = xs[j].object.id}) % 2
               = 1
        /\ \A k \in (j + 1)..m : xs[k].object.id # xs[j].object.id}

IndexPerShape(xs, m) ==
    IF InsidePerShape(xs, m) = {} THEN Vacuum
    ELSE LET j == CHOOSE j \in InsidePerShape(xs, m) :
                      \A k \in InsidePerShape(xs, m) : k <= j
         IN  xs[j].object.material.refractive_index

\* C27: containers are tracked per shape: two different shapes of the list
\* with equal material and equal inverse transform are two containers, so
\* n1 and n2 are those of the shapes entered and not left, each shape told
\* apart from every other.
C27_ContainersPerShape ==
    probe.fn = "prepare_computations" =>
        /\ probe.out.n1 = IndexPerShape(probe.xs,
                                        OwnEntry(probe.xs, probe.i) - 1)
        /\ probe.out.n2 = IndexPerShape(probe.xs, OwnEntry(probe.xs, probe.i))

\* (n1, n2) at the four intersections of the two equal spheres of a group,
\* in half units.
TwinPairs == <<<<2, 3>>, <<3, 2>>, <<2, 3>>, <<3, 2>>>>

\* C27, as the code has it: for the two overlapping glass spheres of one
\* group, entering the second sphere empties the containers and leaving the
\* first fills them again.
C27_EqualShapesShareContainer ==
    (probe.fn = "prepare_computations" /\ probe.xs = TwinXs) =>
        <<probe.out.n1, probe.out.n2>> = TwinPairs[probe.i]

\* The hit enters the second sphere inside the first, and n2 is that of
\* empty space.
C27_Witness ==
    /\ probe.fn = "prepare_computations"
    /\ probe.xs = TwinXs
    /\ probe.i = 2
    /\ probe.out.n1 = 3
    /\ probe.out.n2 = Vacuum

(***************************************************************************)
(* Claims about cones (checked under SpecCone)                             *)
(***************************************************************************)
ConeDone == probe.fn = "cone" /\ probe.called

\* x^2 + z^2 = y^2 at the point
OnCone(p) == FAdd(Powi2(p[1]), Powi2(p[3])) = Powi2(p[2])

\* C28: every t returned by intersect_sides, the single one of the linear
\* case (a about 0) included, gives a point origin + t * direction with
\* x^2 + z^2 = y^2.
C28_SideHitsOnCone ==
    ConeDone =>
        \A k \in 1..Len(probe.sides) :
            OnCone(ConePoint(probe.ray, probe.sides[k]))

\* C28, without the linear case: the roots of the quadratic lie on the cone.
C28_QuadraticHitsOnCone ==
    (ConeDone /\ ~ConeLinear(probe.ray)) =>
        \A k \in 1..Len(probe.sides) :
            OnCone(ConePoint(probe.ray, probe.sides[k]))

\* Two different side hits have come out of the quadratic.
C28_Witness ==
    /\ ConeDone
    /\ ~ConeLinear(probe.ray)
    /\ Len(probe.sides) = 2
    /\ probe.sides[1] # probe.sides[2]

\* vector(0, 1, 0) for the cap at maximum, vector(0, -1, 0) for the one at
\* minimum
CapNormal(cone, m) ==
    IF m = cone.maximum THEN <<Fin(0, 1), Fin(1, 1), Fin(0, 1)>>
    ELSE <<Fin(0, 1), Fin(-1, 1), Fin(0, 1)>>

\* x^2 + z^2 at the point
AxisDist(p) == FAdd(Powi2(p[1]), Powi2(p[3]))

\* C29: for a closed truncated cone every point accepted as a cap hit by
\* intersect_caps gets the normal of its cap from local_normal_at, (0, 1, 0)
\* at maximum and (0, -1, 0) at minimum, never the normal of the side.
C29_CapHitsGetCapNormal ==
    (ConeDone /\ probe.cone.closed) =>
        \A k \in 1..Len(probe.caps) :
            probe.normals[k] = CapNormal(probe.cone, probe.caps[k].m)

\* C29, for the cap hits less than 1 away from the axis: these get the
\* normal of their cap.
C29_CapHitsNearAxisGetCapNormal ==
    (ConeDone /\ probe.cone.closed) =>
        \A k \in 1..Len(probe.caps) :
            QLt(AxisDist(ConePoint(probe.ray, probe.caps[k].t)), Fin(1, 1)) =>
                probe.normals[k] = CapNormal(probe.cone, probe.caps[k].m)

\* A ray has gone through both caps of the closed cone, off the axis, and
\* the two normals are those of the caps.
C29_Witness ==
    /\ ConeDone
    /\ probe.cone.closed
    /\ Len(probe.caps) = 2
    /\ AxisDist(ConePoint(probe.ray, probe.caps[1].t)) # Fin(0, 1)
    /\ probe.normals[1] = <<Fin(0, 1), Fin(-1, 1), Fin(0, 1)>>
    /\ probe.normals[2] = <<Fin(0, 1), Fin(1, 1), Fin(0, 1)>>

(***************************************************************************)
(* Claims about coordinates outside the canvas (checked under              *)
(* SpecCanvasAny)                                                          *)
(***************************************************************************)
\* (x, y) lies outside the canvas
OutsideCanvas(cv, x, y) == x >= cv.width \/ y >= cv.height

\* The pixels of the canvas as it was made
FreshPixels(cv) == [k \in 1..(cv.width * cv.height) |-> Black]

\* C30: write_pixel(x, y, c) modifies a stored pixel only when x < width and
\* y < height, so a call with x >= width overwrites no pixel of another row,
\* and pixel_at with such coordinates reads none.
C30_OutsideTouchesNoPixel ==
    probe.fn = "write_pixel" =>
        /\ \A k \in 1..Len(probe.wrote) :
              OutsideCanvas(probe.cv, probe.wrote[k].x, probe.wrote[k].y) =>
                  probe.cv.pixels = FreshPixels(probe.cv)
        /\ \A k \in 1..Len(probe.read) :
              OutsideCanvas(probe.cv, probe.read[k].x, probe.read[k].y) =>
                  probe.read[k].panicked

\* C30, as the code has it: the index width * y + x alone decides. A call
\* whose index is within the Vec writes or reads that pixel, wherever (x, y)
\* lies; only an index past the end panics, and then no pixel is modified.
C30_IndexAloneDecides ==
    probe.fn = "write_pixel" =>
        /\ \A k \in 1..Len(probe.wrote) :
              LET i == probe.cv.width * probe.wrote[k].y + probe.wrote[k].x
              IN  IF i < probe.cv.width * probe.cv.height
                  THEN /\ ~probe.cv.panicked
                       /\ probe.cv.pixels =
                              [FreshPixels(probe.cv) EXCEPT
                                  ![i + 1] = probe.wrote[k].c]
                  ELSE /\ probe.cv.panicked
                       /\ probe.cv.pixels = FreshPixels(probe.cv)
        /\ \A k \in 1..Len(probe.read) :
              LET i == probe.cv.width * probe.read[k].y + probe.read[k].x
              IN  IF i < probe.cv.width * probe.cv.height
                  THEN /\ ~probe.read[k].panicked
                       /\ probe.read[k].out = probe.cv.pixels[i + 1]
                  ELSE probe.read[k].panicked

\* On a 3 x 2 canvas write_pixel(3, 0, c) has coloured the first pixel of
\* the second row, and pixel_at(3, 0) has read it.
C30_Witness ==
    /\ probe.fn = "write_pixel"
    /\ probe.cv.width = 3
    /\ probe.cv.height = 2
    /\ probe.wrote = <<[x |-> 3, y |-> 0, c |-> 1]>>
    /\ pixel_at(probe.cv, 0, 1) = 1
    /\ Len(probe.read) = 1
    /\ probe.read[1].x = 3
    /\ probe.read[1].y = 0
    /\ ~probe.read[1].panicked
    /\ probe.read[1].out = 1

====
